---- MODULE Spec2Model ----
(***************************************************************************)
(* Model of the article-checker webhook worker (cloudflare-worker/worker): *)
(* validateRequest, checkRateLimit and the fetch handler, run against a    *)
(* key-value store that outlives the invocations.                          *)
(* Each await of the handler is one step; the outcome of every remote call *)
(* (store get/put, verify, GitHub, analysis, search) is chosen by the      *)
(* environment.  A request's headers and body are immutable; each is bound *)
(* in the state at the line where the handler first reads it.              *)
(***************************************************************************)
EXTENDS Integers, Sequences, FiniteSets, TLC

(***************************************************************************)
(* Bounds of the model.  RATE_LIMIT is scaled down: the program's values   *)
(* are MAX_REQUESTS = 100 and WINDOW_SIZE = 3600 (part_000:73-76); every   *)
(* formula below is stated in terms of the two names, not of their values. *)
(***************************************************************************)
MAX_REQUESTS == 2
WINDOW_SIZE == 2
\* the clock runs from 0 to MaxTime
MaxTime == 3
\* invocations in a behaviour of SequentialSpec
MaxSequentialRequests == 4

RATE_LIMIT == [MAX_REQUESTS |-> MAX_REQUESTS, WINDOW_SIZE |-> WINDOW_SIZE]

(***************************************************************************)
(* Environment (interface Env) and the values a request can carry.         *)
(***************************************************************************)
requiredEnvVars ==
  <<"GITHUB_TOKEN", "ANTHROPIC_API_KEY", "BRAVE_SEARCH_API_KEY", "GITHUB_WEBHOOK_SECRET">>

EnvNames == {requiredEnvVars[i] : i \in 1..Len(requiredEnvVars)}

ConfiguredEnv ==
  [GITHUB_TOKEN |-> "test-token", ANTHROPIC_API_KEY |-> "test-key",
   BRAVE_SEARCH_API_KEY |-> "test-key", GITHUB_WEBHOOK_SECRET |-> "test-secret"]

\* An environment binds every variable to its configured value or to "" (missing).
Envs == {e \in [EnvNames -> {"", "test-token", "test-key", "test-secret"}] :
           \A k \in EnvNames : e[k] \in {"", ConfiguredEnv[k]}}

NoEnv == [k \in EnvNames |-> ""]

\* cf-connecting-ip header: "" stands for an absent header.
IPHeaders == {"", "1.2.3.4"}
\* x-hub-signature-256 header: "" stands for an absent header.
SigHeaders == {"", "sha256=valid", "sha256=invalid"}

\* A string as the sequence of its characters.
TRIGGER == <<"/", "a", "r", "t", "i", "c", "l", "e", "c", "h", "e", "c", "k">>
TextHi == <<"h", "i">>
TextNearMiss == <<"/", "a", "r", "t", "i", "c", "l", "e">>
TextEmbedded == <<"o", "k", " ">> \o TRIGGER \o <<"!">>

\* String.prototype.includes
Includes(s, sub) ==
  \E i \in 0..(Len(s) - Len(sub)) : SubSeq(s, i + 1, i + Len(sub)) = sub

\* A URL as the sequence of its "/"-separated segments.
UrlGood == <<"https:", "", "api.github.com", "repos", "owner", "repo", "pulls", "123">>
UrlIssues == <<"https:", "", "api.github.com", "repos", "owner", "repo", "issues", "123">>
UrlNoNumber == <<"https:", "", "api.github.com", "repos", "owner", "repo", "pulls", "abc">>
UrlEmpty == <<>>

NumberOf == [s \in {"123"} |-> 123]

\* GitHubService.extractPRDetails: the regex repos/([^/]+)/([^/]+)/pulls/(\d+);
\* the result is NoMatch when the URL does not match (the method then throws).
NoMatch == [ok |-> FALSE, owner |-> "", repo |-> "", number |-> 0]

extractPRDetails(prUrl) ==
  LET hits == {i \in 1..(Len(prUrl) - 4) :
                 /\ prUrl[i] = "repos"
                 /\ prUrl[i + 1] # ""
                 /\ prUrl[i + 2] # ""
                 /\ prUrl[i + 3] = "pulls"
                 /\ prUrl[i + 4] \in DOMAIN NumberOf}
  IN IF hits = {} THEN NoMatch
     ELSE LET i == CHOOSE j \in hits : \A k \in hits : j <= k
          IN [ok |-> TRUE, owner |-> prUrl[i + 1], repo |-> prUrl[i + 2],
              number |-> NumberOf[prUrl[i + 4]]]

(***************************************************************************)
(* Request bodies.  A body is the raw text; json = FALSE is text that      *)
(* JSON.parse rejects, otherwise the fields are those of the parsed        *)
(* payload ("issue" in payload, "comment" in payload, payload.action,      *)
(* issue.pull_request, issue.pull_request.url, comment.body).              *)
(***************************************************************************)
Body(json, hasIssue, hasComment, action, hasPR, url, text) ==
  [json |-> json, hasIssue |-> hasIssue, hasComment |-> hasComment, action |-> action,
   hasPR |-> hasPR, prUrl |-> url, commentBody |-> text, issueNumber |-> 123]

BodyInvalidJson == Body(FALSE, FALSE, FALSE, "", FALSE, UrlEmpty, <<>>)
BodyEmptyObject == Body(TRUE, FALSE, FALSE, "", FALSE, UrlEmpty, <<>>)
BodyTrigger == Body(TRUE, TRUE, TRUE, "created", TRUE, UrlGood, TRIGGER)
BodyTriggerEmbedded == Body(TRUE, TRUE, TRUE, "created", TRUE, UrlGood, TextEmbedded)

Bodies ==
  { BodyInvalidJson,
    BodyEmptyObject,
    BodyTrigger,
    BodyTriggerEmbedded,
    Body(TRUE, TRUE, TRUE, "created", TRUE, UrlGood, TextHi),
    Body(TRUE, TRUE, TRUE, "created", TRUE, UrlGood, TextNearMiss),
    Body(TRUE, TRUE, TRUE, "created", TRUE, UrlGood, <<>>),
    Body(TRUE, TRUE, TRUE, "created", FALSE, UrlEmpty, TRIGGER),
    Body(TRUE, TRUE, TRUE, "edited", TRUE, UrlGood, TRIGGER),
    Body(TRUE, TRUE, FALSE, "created", TRUE, UrlGood, TRIGGER),
    Body(TRUE, FALSE, TRUE, "created", FALSE, UrlEmpty, TRIGGER),
    Body(TRUE, TRUE, TRUE, "created", TRUE, UrlEmpty, TRIGGER),
    Body(TRUE, TRUE, TRUE, "created", TRUE, UrlIssues, TRIGGER),
    Body(TRUE, TRUE, TRUE, "created", TRUE, UrlNoNumber, TRIGGER) }

NoBody == Body(FALSE, FALSE, FALSE, "unread", FALSE, UrlEmpty, <<>>)

\* Variant: payload.action is not looked at.
IsTriggerEventAnyAction(payload) ==
  /\ payload.hasIssue
  /\ payload.hasComment
  /\ payload.hasPR
  /\ payload.commentBody # <<>>
  /\ Includes(payload.commentBody, TRIGGER)

\* fetch, lines 174-184: an issue comment created on a pull request whose
\* body contains the trigger command.
IsTriggerEvent(payload) ==
  /\ payload.hasIssue
  /\ payload.hasComment
  /\ payload.action = "created"
  /\ payload.hasPR
  /\ payload.commentBody # <<>>
  /\ Includes(payload.commentBody, TRIGGER)

(***************************************************************************)
(* The key-value store (RATE_LIMIT_KV).  A record is absent (get returns   *)
(* null) or holds the JSON array written by the last put together with the *)
(* time at which its expirationTtl runs out.                               *)
(***************************************************************************)
\* validateRequest line 133: the header, or "unknown" when it is absent.
clientIPOf(header) == IF header = "" THEN "unknown" ELSE header

\* Variant: one key for every client.
RateLimitKeyShared(ip) == <<"ratelimit:", "unknown">>

\* checkRateLimit line 82: `ratelimit:${ip}`
RateLimitKey(ip) == <<"ratelimit:", ip>>

Keys == {RateLimitKey(clientIPOf(h)) : h \in IPHeaders}

Absent == [present |-> FALSE, value |-> <<>>, expires |-> 0]

\* The record under key has outlived its expirationTtl at time t.
Expired(store, key, t) == store[key].present /\ t >= store[key].expires

\* kv.get(key, {type: "json"}) at time t: null once the record has expired.
KvGet(store, key, t) ==
  IF store[key].present /\ ~Expired(store, key, t) THEN store[key] ELSE Absent

\* kv.put(key, JSON.stringify(value), {expirationTtl: ttl}) at time t.
KvPut(store, key, value, ttl, t) ==
  [store EXCEPT ![key] = [present |-> TRUE, value |-> value, expires |-> t + ttl]]

\* Variant: a stamp exactly WINDOW_SIZE seconds old is kept.
RECURSIVE SelectGreaterOrEqual(_, _)
SelectGreaterOrEqual(s, bound) ==
  IF s = <<>> THEN <<>>
  ELSE IF Head(s) >= bound THEN <<Head(s)>> \o SelectGreaterOrEqual(Tail(s), bound)
       ELSE SelectGreaterOrEqual(Tail(s), bound)

\* Array.prototype.filter
RECURSIVE SelectGreater(_, _)
SelectGreater(s, bound) ==
  IF s = <<>> THEN <<>>
  ELSE IF Head(s) > bound THEN <<Head(s)>> \o SelectGreater(Tail(s), bound)
       ELSE SelectGreater(Tail(s), bound)

\* checkRateLimit line 88: the stored value when it is an array, else [].
StoredRequests(got) == IF got.present THEN got.value ELSE <<>>

\* checkRateLimit lines 94-95: drop the entries at or before windowStart,
\* then push now.
ValidRequests(requests, t) ==
  Append(SelectGreater(requests, t - RATE_LIMIT.WINDOW_SIZE), t)

\* checkRateLimit line 107: true when the request is to be blocked.
OverLimit(validRequests) == Len(validRequests) > RATE_LIMIT.MAX_REQUESTS

\* Number.prototype.toString: the decimal digits of n.
RECURSIVE ToDigits(_)
ToDigits(n) == IF n < 10 THEN <<n>> ELSE Append(ToDigits(n \div 10), n % 10)

\* Variant: the time until the oldest stamp of the window leaves it.
RetryAfterUntilOldest == ToDigits(RATE_LIMIT.WINDOW_SIZE - 1)

\* validateRequest line 139
RetryAfterHeader == ToDigits(RATE_LIMIT.WINDOW_SIZE)

(***************************************************************************)
(* Responses.  kind "text" carries a plain body; kind "json" carries       *)
(* JSON.stringify({error: body}).  retryAfter is <<>> when the header is   *)
(* not set.                                                                *)
(***************************************************************************)
Response(status, kind, body, retryAfter) ==
  [status |-> status, kind |-> kind, body |-> body, retryAfter |-> retryAfter]

NoResponse == Response(0, "none", "", <<>>)
TextResponse(status, body) == Response(status, "text", body, <<>>)
ErrorJson(status, message) == Response(status, "json", message, <<>>)

\* Variant: the outer catch reports the message of the error it caught.
InternalErrorWithDetail == ErrorJson(500, "Unexpected token i in JSON at position 0")

\* The outer catch of fetch, lines 299-307.
InternalError == ErrorJson(500, "Internal server error")

(***************************************************************************)
(* BraveSearchService (services/brave-search.ts): claim extraction and the *)
(* selection of references from a search response.  Texts are sequences of *)
(* characters.                                                             *)
(***************************************************************************)
\* factCheck line 146: slice(0, 3)
MAX_CLAIMS == 3
\* factCheck line 145: s.length >= 20
MIN_CLAIM_LENGTH == 20
\* factCheck line 145: s.split(" ").length >= 5
MIN_CLAIM_WORDS == 5
\* processSearchResults line 97: results.length >= 5
MAX_RESULTS == 5
\* processSearchResults line 114: result.description.length >= 5
MIN_NEWS_DESCRIPTION == 5

\* The characters String.prototype.trim removes, as far as the texts of the
\* model contain them.
Whitespace == {" ", "\n"}

\* String.prototype.split with a one-character separator.
RECURSIVE Split(_, _)
Split(s, sep) ==
  IF \A i \in 1..Len(s) : s[i] # sep THEN <<s>>
  ELSE LET i == CHOOSE j \in 1..Len(s) :
                  s[j] = sep /\ \A k \in 1..(j - 1) : s[k] # sep
       IN <<SubSeq(s, 1, i - 1)>> \o Split(SubSeq(s, i + 1, Len(s)), sep)

\* String.prototype.trim
Trim(s) ==
  LET kept == {i \in 1..Len(s) : s[i] \notin Whitespace}
  IN IF kept = {} THEN <<>>
     ELSE SubSeq(s, CHOOSE i \in kept : \A j \in kept : i <= j,
                    CHOOSE i \in kept : \A j \in kept : i >= j)

\* Array.prototype.map(s => s.trim())
TrimAll(pieces) == [i \in 1..Len(pieces) |-> Trim(pieces[i])]

\* factCheck line 145: the filter predicate
IsSubstantial(s) ==
  /\ Len(s) >= MIN_CLAIM_LENGTH
  /\ Len(Split(s, " ")) >= MIN_CLAIM_WORDS

\* Array.prototype.filter with IsSubstantial
RECURSIVE SelectSubstantial(_)
SelectSubstantial(pieces) ==
  IF pieces = <<>> THEN <<>>
  ELSE IF IsSubstantial(Head(pieces))
       THEN <<Head(pieces)>> \o SelectSubstantial(Tail(pieces))
       ELSE SelectSubstantial(Tail(pieces))

\* Array.prototype.slice(0, n)
SliceFirst(s, n) == SubSeq(s, 1, IF Len(s) < n THEN Len(s) ELSE n)

\* Variant: every substantial sentence becomes a claim.
ExtractClaimsUnbounded(text) == SelectSubstantial(TrimAll(Split(text, ".")))

\* factCheck lines 142-146
ExtractClaims(text) ==
  SliceFirst(SelectSubstantial(TrimAll(Split(text, "."))), MAX_CLAIMS)

\* A search response (BraveAPIResponse): mixed.main is the sequence of the
\* types of its items, or is absent; web, news and faq are the result lists.
SearchResponse(hasMixed, main, web, news, faq) ==
  [hasMixed |-> hasMixed, main |-> main, web |-> web, news |-> news, faq |-> faq]

\* web results: title, url, description (interface lines 13-19)
WebResultWith(i, description) ==
  [title |-> <<"Web Result", i>>, url |-> <<"https://test.com", i>>,
   description |-> description]

WebResult(i) == WebResultWith(i, <<"A", " ", "w", "e", "b">>)

NewsResult(i, description) ==
  [title |-> <<"News Result", i>>, url |-> <<"https://news.com", i>>,
   description |-> description, age |-> "2d", hostname |-> "news.com"]

FaqResult(i) ==
  [title |-> <<"FAQ Result", i>>, url |-> <<"https://faq.com", i>>,
   question |-> <<"W", "h", "y", "?">>, answer |-> <<"S", "o">>]

\* String.prototype.replace with a global pattern of literal characters:
\* the occurrences are found from left to right and do not overlap.
RECURSIVE ReplaceAll(_, _, _)
ReplaceAll(text, pattern, replacement) ==
  IF Len(text) < Len(pattern) THEN text
  ELSE IF SubSeq(text, 1, Len(pattern)) = pattern
       THEN replacement \o ReplaceAll(SubSeq(text, Len(pattern) + 1, Len(text)),
                                      pattern, replacement)
       ELSE <<Head(text)>> \o ReplaceAll(Tail(text), pattern, replacement)

\* removeStrong, lines 74-79
removeStrong(text) ==
  ReplaceAll(
    ReplaceAll(
      ReplaceAll(text, <<"<", "s", "t", "r", "o", "n", "g", ">">>, <<>>),
      <<"<", "/", "s", "t", "r", "o", "n", "g", ">">>, <<>>),
    <<"&", "#", "x", "2", "7", ";">>, <<"'">>)

\* Variant: a news item is pushed whatever its description.
HasDescriptionAlways(result) == TRUE

\* line 114: the test a news item passes to be pushed
HasDescription(result) == Len(result.description) >= MIN_NEWS_DESCRIPTION

\* lines 102-106, 115-119 and 127-131: the result pushed for an item
WebEntry(result) ==
  [title |-> result.title, url |-> result.url,
   description |-> removeStrong(result.description)]

NewsEntry(result) ==
  [title |-> result.title \o <<result.age, result.hostname>>, url |-> result.url,
   description |-> removeStrong(result.description)]

FaqEntry(result) ==
  [title |-> result.title, url |-> result.url,
   description |-> <<"Q", ":", " ">> \o result.question \o <<"\n", "A", ":", " ">>
                     \o result.answer]

\* processSearchResults lines 96-135: the loop over the ordering, from the
\* item at the head of ordering on, with the three indices and the results
\* collected so far.
RECURSIVE ProcessOrdering(_, _, _, _, _, _)
ProcessOrdering(ordering, response, webIndex, newsIndex, faqIndex, results) ==
  IF ordering = <<>> \/ Len(results) >= MAX_RESULTS THEN results
  ELSE LET type == Head(ordering)
           rest == Tail(ordering)
       IN CASE type = "web" ->
                 IF webIndex < Len(response.web)
                 THEN LET result == response.web[webIndex + 1]
                      IN ProcessOrdering(rest, response, webIndex + 1, newsIndex, faqIndex,
                           Append(results, WebEntry(result)))
                 ELSE ProcessOrdering(rest, response, webIndex, newsIndex, faqIndex, results)
            [] type = "news" ->
                 IF newsIndex < Len(response.news)
                 THEN LET result == response.news[newsIndex + 1]
                      IN ProcessOrdering(rest, response, webIndex, newsIndex + 1, faqIndex,
                           IF HasDescription(result)
                           THEN Append(results, NewsEntry(result))
                           ELSE results)
                 ELSE ProcessOrdering(rest, response, webIndex, newsIndex, faqIndex, results)
            [] type = "faq" ->
                 IF faqIndex < Len(response.faq)
                 THEN LET result == response.faq[faqIndex + 1]
                      IN ProcessOrdering(rest, response, webIndex, newsIndex, faqIndex + 1,
                           Append(results, FaqEntry(result)))
                 ELSE ProcessOrdering(rest, response, webIndex, newsIndex, faqIndex, results)
            [] OTHER ->
                 ProcessOrdering(rest, response, webIndex, newsIndex, faqIndex, results)

\* Variant: with no ordering the web results are returned as they come.
processSearchResultsWebFallback(response) ==
  IF response.hasMixed /\ response.main # <<>>
  THEN ProcessOrdering(response.main, response, 0, 0, 0, <<>>)
  ELSE ProcessOrdering([i \in 1..Len(response.web) |-> "web"], response, 0, 0, 0, <<>>)

\* processSearchResults lines 84-137
processSearchResults(response) ==
  ProcessOrdering(IF response.hasMixed THEN response.main ELSE <<>>, response,
                  0, 0, 0, <<>>)

\* factCheck lines 153-156: the title and url of each result
References(results) ==
  [i \in 1..Len(results) |-> [title |-> results[i].title, url |-> results[i].url]]

(***************************************************************************)
(* Texts and search responses the model draws from.                        *)
(***************************************************************************)
\* sentences in a text given to factCheck
MaxSentences == 4
\* items of the largest search response
MaxItems == 7

\* Array.prototype.join
RECURSIVE Join(_, _)
Join(pieces, sep) ==
  IF pieces = <<>> THEN <<>>
  ELSE IF Len(pieces) = 1 THEN pieces[1]
  ELSE pieces[1] \o sep \o Join(Tail(pieces), sep)

\* Words of the letter c with the given lengths, gap between them.
Sentence(c, lengths, gap) == Join([i \in 1..Len(lengths) |-> [j \in 1..lengths[i] |-> c]], gap)

\* 20 characters and 5 words once trimmed
SentenceTwenty == <<" ">> \o Sentence("a", <<4, 4, 4, 3, 1>>, <<" ">>) \o <<"\n">>
\* 22 characters, 19 once trimmed, 5 words
SentenceNineteen == <<" ", " ">> \o Sentence("b", <<4, 4, 4, 2, 1>>, <<" ">>) \o <<" ">>
\* 31 characters, 4 words
SentenceFourWords == Sentence("c", <<7, 7, 7, 7>>, <<" ">>)
\* 21 characters, 2 words four spaces apart
SentenceDoubleSpace == Sentence("d", <<16, 1>>, <<" ", " ", " ", " ">>)
\* 24 characters, 5 words one line break apart
SentenceNewlines == Sentence("e", <<4, 4, 4, 4, 4>>, <<"\n">>)
SentenceShort == <<"S", "h", "o", "r", "t">>

Sentences ==
  {SentenceTwenty, SentenceNineteen, SentenceFourWords, SentenceDoubleSpace,
   SentenceNewlines, SentenceShort}

Texts ==
  {Join(ps, <<".">>) : ps \in UNION {[1..n -> Sentences] : n \in 0..MaxSentences}}

\* no mixed section: the web result is never looked at
ResponseNoMixed == SearchResponse(FALSE, <<>>, <<WebResult(1)>>, <<>>, <<>>)
ResponseOneWeb == SearchResponse(TRUE, <<"web">>, <<WebResult(1)>>, <<>>, <<>>)
ResponseManyWeb ==
  SearchResponse(TRUE, [i \in 1..MaxItems |-> "web"], [i \in 1..MaxItems |-> WebResult(i)],
                 <<>>, <<>>)
ResponseMixed ==
  SearchResponse(TRUE, <<"web", "news", "faq">>, <<WebResult(1)>>,
                 <<NewsResult(1, <<"A", " ", "n", "e", "w", "s">>)>>, <<FaqResult(1)>>)
\* a news item whose description is too short, and more web items in the
\* ordering than web results
ResponseShortNews ==
  SearchResponse(TRUE, <<"news", "news", "web", "web">>, <<WebResult(1)>>,
                 <<NewsResult(1, <<"n", "e", "w", "s">>), NewsResult(2, <<"n", "e", "w", "s", "!">>)>>,
                 <<>>)
ResponseOnlyShortNews ==
  SearchResponse(TRUE, <<"news">>, <<>>, <<NewsResult(1, <<"n", "/", "a">>)>>, <<>>)

SearchResponses ==
  {ResponseNoMixed, ResponseOneWeb, ResponseManyWeb, ResponseMixed, ResponseShortNews,
   ResponseOnlyShortNews}

\* entries of the longest relevance ordering
MaxOrdering == 6

\* mixed.main[].type, interface line 41
Types == {"web", "news", "faq"}

Orderings == UNION {[1..n -> Types] : n \in 0..MaxOrdering}

\* web.results: none, one with markup in its description, equal items
\* (brave-search.test.ts:103-107, Array.fill), distinct items, an item with an
\* empty description
WebLists ==
  {<<>>,
   <<WebResultWith(1, <<"A", " ", "<", "s", "t", "r", "o", "n", "g", ">", "w", "e", "b",
                        "<", "/", "s", "t", "r", "o", "n", "g", ">", "&", "#", "x",
                        "2", "7", ";", "s">>)>>,
   [i \in 1..MaxItems |-> WebResult(1)],
   [i \in 1..MaxItems |-> WebResult(i)], <<WebResultWith(1, <<>>)>>}

\* news.results: none, one, a short description before a longer one, a
\* description that is markup only
NewsLists ==
  {<<>>, <<NewsResult(1, <<"A", " ", "n", "e", "w", "s">>)>>,
   <<NewsResult(1, <<"n", "e", "w", "s">>), NewsResult(2, <<"n", "e", "w", "s", "!">>)>>,
   <<NewsResult(1, <<"<", "s", "t", "r", "o", "n", "g", ">",
                     "<", "/", "s", "t", "r", "o", "n", "g", ">">>)>>}

FaqLists == {<<>>, <<FaqResult(1)>>}

\* What searchBrave can resolve with.
BackendResponses ==
  {SearchResponse(TRUE, main, web, news, faq) :
     main \in Orderings, web \in WebLists, news \in NewsLists, faq \in FaqLists}
  \cup {SearchResponse(FALSE, <<>>, web, news, faq) :
           web \in WebLists, news \in NewsLists, faq \in FaqLists}

\* invocations of checkRateLimit in flight at once
MaxConcurrent == 3

Procs == 1..MaxConcurrent

\* The responses the search backend gives within an invocation of fetch.
PipelineResponses == {ResponseNoMixed, ResponseOneWeb}

VARIABLES
  now,            \* the clock, in seconds (Math.floor(Date.now() / 1000))
  kv,             \* RATE_LIMIT_KV: key -> record
  history,        \* per key, the times at which checkRateLimit was entered
  invocations,    \* number of invocations started
  pc,             \* position of the running invocation
  env,            \* the invocation's Env
  ipHeader,       \* cf-connecting-ip as read at line 133
  signature,      \* x-hub-signature-256 as read at line 145
  rawBody,        \* request.clone().text()
  rl,             \* locals of checkRateLimit
  isOverLimit,    \* validateRequest line 134
  isValid,        \* validateRequest line 151: "none", "true", "false" or "threw"
  verifyCalls,    \* arguments of every call of verify
  calls,          \* calls of the store and the services made by fetch, in order
  comments,       \* createComment calls of this invocation, in order
  content,        \* fetch line 221
  analysis,       \* fetch line 224
  factChecking,   \* fetch line 227: the value factCheck returned
  claims,         \* factCheck line 142
  searches,       \* factCheck line 148: per claim, the state of its search
  factCheckState, \* "idle", "searching", "returned" or "threw"
  errorMessage,   \* fetch line 272
  response,       \* the Response returned by fetch
  limiters,       \* locals of the concurrent invocations of checkRateLimit
  lookup,         \* one call of processSearchResults: the response and the results
  completedOutOfOrder  \* a search settled after the search of a later claim

storeVars == <<kv, history>>
requestVars == <<env, ipHeader, signature, rawBody>>
limiterVars == <<rl, isOverLimit, isValid>>
searchVars == <<claims, searches, factCheckState>>
unitVars == <<limiters, lookup, completedOutOfOrder>>
pipelineVars == <<comments, content, analysis, factChecking, errorMessage, claims, searches,
                  factCheckState>>
vars == <<now, kv, history, invocations, pc, env, ipHeader, signature,
          rawBody, rl, isOverLimit, isValid, verifyCalls, calls, comments, content, analysis,
          factChecking, claims, searches, factCheckState, errorMessage, response,
          limiters, lookup, completedOutOfOrder>>

\* content before getPRContent has resolved
NoContent == <<>>

NoLimiter ==
  [now |-> 0, key |-> <<>>, requests |-> <<>>, validRequests |-> <<>>,
   getFailed |-> FALSE, putFailed |-> FALSE, putDone |-> FALSE, expired |-> FALSE]

\* processSearchResults has not been called
NoLookup == [state |-> "idle", response |-> <<>>, results |-> <<>>]

\* The state of an invocation before fetch is entered.
InitInvocation ==
  /\ invocations = 0
  /\ pc = "idle"
  /\ env = NoEnv
  /\ ipHeader = ""
  /\ signature = ""
  /\ rawBody = NoBody
  /\ rl = NoLimiter
  /\ isOverLimit = FALSE
  /\ isValid = "none"
  /\ verifyCalls = <<>>
  /\ calls = <<>>
  /\ comments = <<>>
  /\ content = NoContent
  /\ analysis = ""
  /\ factChecking = <<>>
  /\ claims = <<>>
  /\ searches = <<>>
  /\ factCheckState = "idle"
  /\ errorMessage = ""
  /\ response = NoResponse
  /\ limiters = <<>>
  /\ lookup = NoLookup
  /\ completedOutOfOrder = FALSE

\* What earlier invocations can have left in the store at time 0: for each
\* client, up to MAX_REQUESTS + 1 requests made in that second (the store of
\* the test "should enforce rate limits" holds MAX_REQUESTS + 1 equal stamps).
PriorWindows == {[i \in 1..n |-> 0] : n \in 0..(RATE_LIMIT.MAX_REQUESTS + 1)}

StoredWindow(w) ==
  IF w = <<>> THEN Absent
  ELSE [present |-> TRUE, value |-> w, expires |-> w[Len(w)] + RATE_LIMIT.WINDOW_SIZE]

\* The windows of the clients at time 0: at most one client has made requests.
PriorStores ==
  {prior \in [Keys -> PriorWindows] : \E k \in Keys : \A j \in Keys \ {k} : prior[j] = <<>>}

Init ==
  /\ now = 0
  /\ \E prior \in PriorStores :
       /\ kv = [k \in Keys |-> StoredWindow(prior[k])]
       /\ history = prior
  /\ InitInvocation

\* The store before the first request ever made.
InitSequential ==
  /\ now = 0
  /\ kv = [k \in Keys |-> Absent]
  /\ history = [k \in Keys |-> <<>>]
  /\ InitInvocation

\* The clock advances.  The handler reads it only in checkRateLimit (line 80)
\* and the store reads it when a call arrives, so a tick during the later
\* steps of an invocation acts as a tick after its response.
Tick ==
  /\ now < MaxTime
  /\ pc \in {"idle", "validateEnv", "rateLimit", "kvGet", "kvPut", "done"}
  /\ now' = now + 1
  /\ UNCHANGED <<storeVars, invocations, unitVars, pc, requestVars, limiterVars, verifyCalls,
                 calls, pipelineVars, response>>

\* return new Response(...): the invocation ends.
Respond(r) ==
  /\ response' = r
  /\ pc' = "done"

(***************************************************************************)
(* fetch is invoked with a request and an environment (line 160).  Nothing *)
(* in the process survives from one invocation to the next.                *)
(***************************************************************************)
Invoke(envs) ==
  /\ invocations' = invocations + 1
  /\ \E e \in envs : env' = e
  /\ ipHeader' = ""
  /\ signature' = ""
  /\ rawBody' = NoBody
  /\ rl' = NoLimiter
  /\ isOverLimit' = FALSE
  /\ isValid' = "none"
  /\ verifyCalls' = <<>>
  /\ calls' = <<>>
  /\ comments' = <<>>
  /\ content' = NoContent
  /\ analysis' = ""
  /\ factChecking' = <<>>
  /\ claims' = <<>>
  /\ searches' = <<>>
  /\ factCheckState' = "idle"
  /\ errorMessage' = ""
  /\ response' = NoResponse
  /\ pc' = "validateEnv"
  /\ UNCHANGED <<now, storeVars, unitVars>>

\* Variant: the search key is left out of the list of required variables.
missingEnvVarsShortList(e) == {k \in EnvNames \ {"BRAVE_SEARCH_API_KEY"} : e[k] = ""}

\* One invocation, in any environment.
Receive ==
  /\ pc = "idle"
  /\ Invoke(Envs)

\* One more invocation once the last one has answered, every secret set.
ReceiveNext ==
  /\ pc \in {"idle", "done"}
  /\ invocations < MaxSequentialRequests
  /\ Invoke({ConfiguredEnv})

\* validateRequest lines 117-130
missingEnvVars(e) == {k \in EnvNames : e[k] = ""}

ValidateEnv ==
  /\ pc = "validateEnv"
  /\ IF missingEnvVars(env) # {}
     THEN Respond(TextResponse(500, "Missing required environment variables"))
     ELSE /\ pc' = "rateLimit"
          /\ UNCHANGED response
  /\ UNCHANGED <<now, storeVars, invocations, unitVars, requestVars, limiterVars, verifyCalls,
                 calls, pipelineVars>>

(***************************************************************************)
(* checkRateLimit, lines 78-111.                                           *)
(***************************************************************************)
\* lines 133-134 and 80-82: resolve the client, read the clock, issue kv.get
RateLimitStart ==
  /\ pc = "rateLimit"
  /\ \E h \in IPHeaders :
       /\ ipHeader' = h
       /\ rl' = [NoLimiter EXCEPT !.now = now, !.key = RateLimitKey(clientIPOf(h))]
       /\ history' = [history EXCEPT ![RateLimitKey(clientIPOf(h))] = Append(@, now)]
  /\ calls' = Append(calls, "kv.get")
  /\ pc' = "kvGet"
  /\ UNCHANGED <<now, kv, invocations, unitVars, env, signature, rawBody, isOverLimit,
                 isValid, verifyCalls, pipelineVars, response>>

\* lines 94-99: filter, push now, issue kv.put
FilterAndPut(requests, getFailed) ==
  /\ rl' = [rl EXCEPT !.requests = requests,
                      !.validRequests = ValidRequests(requests, rl.now),
                      !.getFailed = getFailed,
                      !.expired = ~getFailed /\ Expired(kv, rl.key, now)]
  /\ calls' = Append(calls, "kv.put")
  /\ pc' = "kvPut"

\* lines 86-88: kv.get resolved
KvGetResolves ==
  /\ pc = "kvGet"
  /\ FilterAndPut(StoredRequests(KvGet(kv, rl.key, now)), FALSE)
  /\ UNCHANGED <<now, storeVars, invocations, unitVars, requestVars, isOverLimit, isValid,
                 verifyCalls, pipelineVars, response>>

\* Variant: a rejected kv.get is not caught and the limiter fails closed.
KvGetRejectsFailClosed ==
  /\ pc = "kvGet"
  /\ rl' = [rl EXCEPT !.getFailed = TRUE, !.putFailed = TRUE]
  /\ isOverLimit' = TRUE
  /\ Respond(Response(429, "text", "Rate limit exceeded", RetryAfterHeader))
  /\ UNCHANGED <<now, storeVars, invocations, unitVars, requestVars, isValid, verifyCalls, calls,
                 pipelineVars>>

\* lines 89-91: kv.get rejected
KvGetRejects ==
  /\ pc = "kvGet"
  /\ FilterAndPut(<<>>, TRUE)
  /\ UNCHANGED <<now, storeVars, invocations, unitVars, requestVars, isOverLimit, isValid,
                 verifyCalls, pipelineVars, response>>

\* Variant: the limiter's verdict is computed and then not acted on.
RateLimitDecisionIgnored(validRequests) ==
  /\ isOverLimit' = OverLimit(validRequests)
  /\ pc' = "signature"
  /\ UNCHANGED response

\* lines 107 and 134-142: the decision, and the 429 of validateRequest
RateLimitDecision(validRequests) ==
  /\ isOverLimit' = OverLimit(validRequests)
  /\ IF OverLimit(validRequests)
     THEN Respond(Response(429, "text", "Rate limit exceeded", RetryAfterHeader))
     ELSE /\ pc' = "signature"
          /\ UNCHANGED response

\* Variant: the window is persisted only for a request that is allowed.
KvPutResolvesWhenAllowed ==
  /\ pc = "kvPut"
  /\ kv' = IF OverLimit(rl.validRequests) THEN kv
           ELSE KvPut(kv, rl.key, rl.validRequests, RATE_LIMIT.WINDOW_SIZE, now)
  /\ rl' = [rl EXCEPT !.putDone = TRUE]
  /\ RateLimitDecision(rl.validRequests)
  /\ UNCHANGED <<now, history, invocations, unitVars, requestVars, isValid,
                 verifyCalls, calls, pipelineVars>>

\* lines 98-101: kv.put resolved
KvPutResolves ==
  /\ pc = "kvPut"
  /\ kv' = KvPut(kv, rl.key, rl.validRequests, RATE_LIMIT.WINDOW_SIZE, now)
  /\ rl' = [rl EXCEPT !.putDone = TRUE]
  /\ RateLimitDecision(rl.validRequests)
  /\ UNCHANGED <<now, history, invocations, unitVars, requestVars, isValid,
                 verifyCalls, calls, pipelineVars>>

\* Variant: the rejection of kv.put reaches the outer catch of checkRateLimit
\* (lines 108-110), which returns false.
KvPutRejectsFailOpen ==
  /\ pc = "kvPut"
  /\ rl' = [rl EXCEPT !.putFailed = TRUE]
  /\ isOverLimit' = FALSE
  /\ pc' = "signature"
  /\ UNCHANGED <<now, kv, history, invocations, unitVars, requestVars, isValid, verifyCalls,
                 calls, pipelineVars, response>>

\* lines 102-104: kv.put rejected
KvPutRejects ==
  /\ pc = "kvPut"
  /\ rl' = [rl EXCEPT !.putFailed = TRUE]
  /\ RateLimitDecision(rl.validRequests)
  /\ UNCHANGED <<now, kv, history, invocations, unitVars, requestVars, isValid, verifyCalls,
                 calls, pipelineVars>>

(***************************************************************************)
(* validateRequest, lines 144-156: the signature gate.                     *)
(***************************************************************************)
\* verify of @octokit/webhooks-methods, as the tests stub it
\* (worker.test.ts:42-50): true exactly for the valid signature.
verify(secret, payload, sig) == sig = "sha256=valid"

\* lines 145-148
ReadSignature ==
  /\ pc = "signature"
  /\ \E s \in SigHeaders :
       /\ signature' = s
       /\ IF s = ""
          THEN Respond(TextResponse(401, "No signature"))
          ELSE /\ pc' = "verify"
               /\ UNCHANGED response
  /\ UNCHANGED <<now, storeVars, invocations, unitVars, env, ipHeader, rawBody, limiterVars,
                 verifyCalls, calls, pipelineVars>>

\* Variant: verify is given the API token for the secret.
VerifyArgumentsWrongSecret(e, body, sig) == <<e["GITHUB_TOKEN"], body, sig>>

\* The arguments validateRequest passes to verify (line 151).
VerifyArguments(e, body, sig) == <<e["GITHUB_WEBHOOK_SECRET"], body, sig>>

\* Variant: the verdict of verify is recorded and the request goes on.
VerifyNotEnforced(bodies) ==
  /\ pc = "verify"
  /\ \E b \in bodies :
       /\ rawBody' = b
       /\ verifyCalls' = Append(verifyCalls, VerifyArguments(env, b, signature))
       /\ isValid' = IF verify(env["GITHUB_WEBHOOK_SECRET"], b, signature)
                     THEN "true" ELSE "false"
  /\ pc' = "parse"
  /\ calls' = Append(calls, "verify")
  /\ UNCHANGED <<now, storeVars, invocations, unitVars, env, ipHeader, signature, rl, isOverLimit,
                 pipelineVars, response>>

\* lines 150-156: read the raw body, call verify, verify resolves
Verify(bodies) ==
  /\ pc = "verify"
  /\ \E b \in bodies :
       /\ rawBody' = b
       /\ verifyCalls' = Append(verifyCalls, VerifyArguments(env, b, signature))
       /\ IF verify(env["GITHUB_WEBHOOK_SECRET"], b, signature)
          THEN /\ isValid' = "true"
               /\ pc' = "parse"
               /\ UNCHANGED response
          ELSE /\ isValid' = "false"
               /\ Respond(TextResponse(401, "Invalid signature"))
  /\ calls' = Append(calls, "verify")
  /\ UNCHANGED <<now, storeVars, invocations, unitVars, env, ipHeader, signature, rl, isOverLimit,
                 pipelineVars>>

\* line 151: verify rejects; the exception reaches the outer catch of fetch
VerifyRejects(bodies) ==
  /\ pc = "verify"
  /\ \E b \in bodies :
       /\ rawBody' = b
       /\ verifyCalls' = Append(verifyCalls, VerifyArguments(env, b, signature))
  /\ isValid' = "threw"
  /\ calls' = Append(calls, "verify")
  /\ Respond(InternalError)
  /\ UNCHANGED <<now, storeVars, invocations, unitVars, env, ipHeader, signature, rl, isOverLimit,
                 pipelineVars>>

(***************************************************************************)
(* The fetch handler after validation, lines 170-298.                      *)
(***************************************************************************)
\* The text of the tests ("Test content", no sentence long enough for a
\* claim) and a text with two claims around a short sentence.
TextTestContent == <<"T", "e", "s", "t", " ", "c", "o", "n", "t", "e", "n", "t">>
TextTwoClaims == Join(<<SentenceTwenty, SentenceShort, SentenceDoubleSpace>>, <<".">>)
Contents == {TextTestContent, TextTwoClaims}
\* "" is a completion with no text (line 233 then substitutes the placeholder).
Analyses == {"Test analysis", ""}
ContentErrors == {"Timeout", "No markdown files found in the PR"}
AnalysisErrors == {"Claude API error"}
FactCheckErrors == {"Brave search failed"}
CommentErrors == {"HttpError"}

\* A createComment call: where it posts, what it posts and how the call ended
\* ("pending", "ok" or "failed").
Comment(kind, target, message, analysisText, factsText, facts) ==
  [kind |-> kind, target |-> target, message |-> message, analysis |-> analysisText,
   factsText |-> factsText, facts |-> facts, status |-> "pending"]

\* owner, repo and issue number of the comments of this invocation
CommentTarget(payload) ==
  LET prDetails == extractPRDetails(payload.prUrl)
  IN <<prDetails.owner, prDetails.repo, payload.issueNumber>>

\* lines 201-208
AckComment(payload) ==
  Comment("ack", CommentTarget(payload), "Processing article check request...",
          "", "", <<>>)

\* lines 230-254
ReportComment(payload, analysisText, facts) ==
  Comment("report", CommentTarget(payload), "Article Check Results",
          IF analysisText # "" THEN analysisText ELSE "*Error: Could not generate analysis*",
          IF Len(facts) > 0 THEN "" ELSE "*No claims to fact check*",
          facts)

\* lines 276-285
ErrorComment(payload, message) ==
  Comment("error", CommentTarget(payload), message, "", "", <<>>)

\* Variant: the content fetch is started and no acknowledgment is posted.
StartArticleCheckNoAck(payload) ==
  /\ comments' = comments
  /\ calls' = Append(calls, "getPRContent")
  /\ pc' = "awaitContent"

\* lines 199-221: the acknowledgment is handed to ctx.waitUntil, then the
\* content fetch is started and awaited
StartArticleCheck(payload) ==
  /\ comments' = Append(comments, AckComment(payload))
  /\ calls' = calls \o <<"createComment", "getPRContent">>
  /\ pc' = "awaitContent"

\* lines 170-221: parse the payload, match the event, extract the PR
\* details, hand the acknowledgment to ctx.waitUntil and start the content
\* fetch raced against the 30 s timer.
HandleEvent ==
  /\ pc = "parse"
  /\ IF ~rawBody.json
     THEN /\ Respond(InternalError)
          /\ UNCHANGED <<calls, comments>>
     ELSE IF ~IsTriggerEvent(rawBody)
     THEN /\ Respond(TextResponse(200, "Event processed"))
          /\ UNCHANGED <<calls, comments>>
     ELSE IF rawBody.prUrl = UrlEmpty
     THEN /\ Respond(TextResponse(400, "Invalid PR URL"))
          /\ UNCHANGED <<calls, comments>>
     ELSE IF ~extractPRDetails(rawBody.prUrl).ok
     THEN /\ Respond(InternalError)
          /\ UNCHANGED <<calls, comments>>
     ELSE /\ StartArticleCheck(rawBody)
          /\ UNCHANGED response
  /\ UNCHANGED <<now, storeVars, invocations, unitVars, requestVars, limiterVars, verifyCalls,
                 content, analysis, factChecking, searchVars, errorMessage>>

\* Variant: the acknowledgment is awaited inside the try block, so that its
\* rejection is caught like the failure of a pipeline step.
AckSettlesAwaited ==
  /\ Len(comments) >= 1
  /\ comments[1].kind = "ack"
  /\ comments[1].status = "pending"
  /\ \/ /\ comments' = [comments EXCEPT ![1].status = "ok"]
        /\ UNCHANGED <<pc, calls, errorMessage>>
     \/ /\ pc \in {"awaitContent", "awaitAnalysis", "awaitFactCheck", "awaitReport"}
        /\ \E m \in CommentErrors :
             /\ errorMessage' = m
             /\ comments' = Append([comments EXCEPT ![1].status = "failed"],
                                   [kind |-> "error", target |-> comments[1].target,
                                    message |-> m, analysis |-> "", factsText |-> "",
                                    facts |-> <<>>, status |-> "pending"])
        /\ calls' = Append(calls, "createComment")
        /\ pc' = "awaitErrorComment"
  /\ UNCHANGED <<now, storeVars, invocations, unitVars, requestVars, limiterVars, verifyCalls,
                 content, analysis, factChecking, searchVars, response>>

\* The acknowledgment is not awaited: it settles at any later time, or never.
AckSettles ==
  /\ Len(comments) >= 1
  /\ comments[1].kind = "ack"
  /\ comments[1].status = "pending"
  /\ \E outcome \in {"ok", "failed"} :
       comments' = [comments EXCEPT ![1].status = outcome]
  /\ UNCHANGED <<now, storeVars, invocations, unitVars, pc, requestVars, limiterVars, verifyCalls,
                 calls, content, analysis, factChecking, searchVars, errorMessage, response>>

\* lines 270-285: the inner catch takes the error's message and posts the
\* error comment.
InnerCatch(message) ==
  /\ errorMessage' = message
  /\ comments' = Append(comments, ErrorComment(rawBody, message))
  /\ calls' = Append(calls, "createComment")
  /\ pc' = "awaitErrorComment"

(***************************************************************************)
(* BraveSearchService.factCheck, brave-search.ts lines 140-162.  The        *)
(* searches of the claims are started together (Promise.all over           *)
(* claims.map) and settle in any order.                                    *)
(***************************************************************************)
PendingSearch == [status |-> "pending", references |-> <<>>]

\* lines 142-150: extract the claims and start one search per claim
CallFactCheck(text) ==
  /\ claims' = ExtractClaims(text)
  /\ searches' = [i \in 1..Len(ExtractClaims(text)) |-> PendingSearch]
  /\ factCheckState' = "searching"

\* lines 150-157: the references that each response of the backend gives
SearchReferences == [r \in SearchResponses |-> References(processSearchResults(r))]

\* lines 150-157: searchBrave resolves for one claim and its response is
\* processed
ResolveSearch(responses) ==
  /\ factCheckState = "searching"
  /\ \E i \in 1..Len(searches), r \in responses :
       /\ searches[i].status = "pending"
       /\ searches' = [searches EXCEPT ![i] = [status |-> "resolved",
                                               references |-> SearchReferences[r]]]
  /\ UNCHANGED <<claims, factCheckState>>

\* lines 66-69 and 148: searchBrave throws for one claim; Promise.all
\* rejects at once and so does factCheck
RejectSearch ==
  /\ factCheckState = "searching"
  /\ \E i \in 1..Len(searches) :
       /\ searches[i].status = "pending"
       /\ searches' = [searches EXCEPT ![i].status = "rejected"]
  /\ factCheckState' = "threw"
  /\ UNCHANGED claims

\* Variant: the entries are collected last claim first.
SearchResultsReversed(cs, ss) ==
  [i \in 1..Len(cs) |-> [claim |-> cs[Len(cs) + 1 - i],
                         references |-> ss[Len(cs) + 1 - i].references]]

\* lines 151-157: the result of Promise.all, one entry per claim
SearchResults(cs, ss) == [i \in 1..Len(cs) |-> [claim |-> cs[i], references |-> ss[i].references]]

\* Variant: the results are returned unfiltered.
WithReferencesKeepsAll(results) == results

\* Array.prototype.filter(result => result.references.length > 0)
RECURSIVE WithReferences(_)
WithReferences(results) ==
  IF results = <<>> THEN <<>>
  ELSE IF Len(Head(results).references) > 0
       THEN <<Head(results)>> \o WithReferences(Tail(results))
       ELSE WithReferences(Tail(results))

\* lines 148-161: every search has resolved; factCheck returns
ReturnFactCheck ==
  /\ factCheckState = "searching"
  /\ \A i \in 1..Len(searches) : searches[i].status = "resolved"
  /\ factChecking' = WithReferences(SearchResults(claims, searches))
  /\ factCheckState' = "returned"
  /\ UNCHANGED <<claims, searches>>

\* line 221 then 224: the content arrives first; analyzeArticle is called
ContentResolves ==
  /\ pc = "awaitContent"
  /\ \E c \in Contents : content' = c
  /\ calls' = Append(calls, "analyzeArticle")
  /\ pc' = "awaitAnalysis"
  /\ UNCHANGED <<now, storeVars, invocations, unitVars, requestVars, limiterVars, verifyCalls,
                 comments, analysis, factChecking, searchVars, errorMessage, response>>

\* line 221: getPRContent rejects first
ContentRejects ==
  /\ pc = "awaitContent"
  /\ \E m \in ContentErrors : InnerCatch(m)
  /\ UNCHANGED <<now, storeVars, invocations, unitVars, requestVars, limiterVars, verifyCalls,
                 content, analysis, factChecking, searchVars, response>>

\* Variant: the timer is not raced against; the pipeline goes on with the
\* content it has.
ContentTimesOutIgnored ==
  /\ pc = "awaitContent"
  /\ calls' = Append(calls, "analyzeArticle")
  /\ pc' = "awaitAnalysis"
  /\ UNCHANGED <<now, storeVars, invocations, unitVars, requestVars, limiterVars,
                 verifyCalls, comments, content, analysis, factChecking, searchVars,
                 errorMessage, response>>

\* lines 217-219: the timer fires first
ContentTimesOut ==
  /\ pc = "awaitContent"
  /\ InnerCatch("Timeout")
  /\ UNCHANGED <<now, storeVars, invocations, unitVars, requestVars, limiterVars, verifyCalls,
                 content, analysis, factChecking, searchVars, response>>

\* line 224 then 227: the analysis arrives; factCheck is called
AnalysisResolves ==
  /\ pc = "awaitAnalysis"
  /\ \E a \in Analyses : analysis' = a
  /\ calls' = Append(calls, "factCheck")
  /\ CallFactCheck(content)
  /\ pc' = "awaitFactCheck"
  /\ UNCHANGED <<now, storeVars, invocations, unitVars, requestVars, limiterVars, verifyCalls,
                 comments, content, factChecking, errorMessage, response>>

\* Variant: a rejected analysis is tried again.
AnalysisRejectsRetries ==
  /\ pc = "awaitAnalysis"
  /\ Len(calls) < 12
  /\ calls' = Append(calls, "analyzeArticle")
  /\ UNCHANGED <<now, storeVars, invocations, unitVars, pc, requestVars, limiterVars,
                 verifyCalls, comments, content, analysis, factChecking, searchVars,
                 errorMessage, response>>

\* line 224: analyzeArticle rejects
AnalysisRejects ==
  /\ pc = "awaitAnalysis"
  /\ \E m \in AnalysisErrors : InnerCatch(m)
  /\ UNCHANGED <<now, storeVars, invocations, unitVars, requestVars, limiterVars, verifyCalls,
                 content, analysis, factChecking, searchVars, response>>

\* A search of a claim settles while fetch awaits factCheck: its response is
\* processed (brave-search.ts lines 150-157).
SearchResolves ==
  /\ pc = "awaitFactCheck"
  /\ ResolveSearch(PipelineResponses)
  /\ UNCHANGED <<now, storeVars, invocations, unitVars, pc, requestVars, limiterVars, verifyCalls,
                 calls, comments, content, analysis, factChecking, errorMessage, response>>

\* line 227 then 230-262: factCheck returns; the report is composed and
\* posted
FactCheckResolves ==
  /\ pc = "awaitFactCheck"
  /\ ReturnFactCheck
  /\ comments' = Append(comments, ReportComment(rawBody, analysis, factChecking'))
  /\ calls' = Append(calls, "createComment")
  /\ pc' = "awaitReport"
  /\ UNCHANGED <<now, storeVars, invocations, unitVars, requestVars, limiterVars, verifyCalls,
                 content, analysis, errorMessage, response>>

\* Variant: the claim of a failed search is dropped and the others go on
\* (Promise.allSettled in place of Promise.all).
FactCheckRejectsDropsClaim ==
  /\ pc = "awaitFactCheck"
  /\ factCheckState = "searching"
  /\ \E i \in 1..Len(searches) :
       /\ searches[i].status = "pending"
       /\ searches' = [searches EXCEPT ![i] = [status |-> "rejected", references |-> <<>>]]
  /\ UNCHANGED <<now, storeVars, invocations, unitVars, pc, requestVars, limiterVars, verifyCalls,
                 calls, comments, content, analysis, factChecking, claims, factCheckState,
                 errorMessage, response>>

\* line 227: a search rejects, so factCheck rejects
FactCheckRejects ==
  /\ pc = "awaitFactCheck"
  /\ RejectSearch
  /\ \E m \in FactCheckErrors : InnerCatch(m)
  /\ UNCHANGED <<now, storeVars, invocations, unitVars, requestVars, limiterVars, verifyCalls,
                 content, analysis, factChecking, response>>

\* The createComment call that fetch awaits is the last one issued.
SettleLast(outcome) == [comments EXCEPT ![Len(comments)].status = outcome]

\* lines 257-269: the report is posted
ReportResolves ==
  /\ pc = "awaitReport"
  /\ comments' = SettleLast("ok")
  /\ Respond(TextResponse(200, "Article check completed"))
  /\ UNCHANGED <<now, storeVars, invocations, unitVars, requestVars, limiterVars, verifyCalls,
                 calls, content, analysis, factChecking, searchVars, errorMessage>>

\* Variant: the rejection of the report post is swallowed and the handler
\* answers as if the report had been posted.
ReportRejectsSwallowed ==
  /\ pc = "awaitReport"
  /\ comments' = SettleLast("failed")
  /\ Respond(TextResponse(200, "Article check completed"))
  /\ UNCHANGED <<now, storeVars, invocations, unitVars, requestVars, limiterVars, verifyCalls,
                 calls, content, analysis, factChecking, searchVars, errorMessage>>

\* line 257: posting the report rejects; the inner catch posts the error
ReportRejects ==
  /\ pc = "awaitReport"
  /\ \E m \in CommentErrors :
       /\ errorMessage' = m
       /\ comments' = Append(SettleLast("failed"), ErrorComment(rawBody, m))
  /\ calls' = Append(calls, "createComment")
  /\ pc' = "awaitErrorComment"
  /\ UNCHANGED <<now, storeVars, invocations, unitVars, requestVars, limiterVars, verifyCalls,
                 content, analysis, factChecking, searchVars, response>>

\* The response of the inner catch, lines 287-292.
PipelineFailure(message) == ErrorJson(500, message)

\* lines 276-292: the error comment is posted
ErrorCommentResolves ==
  /\ pc = "awaitErrorComment"
  /\ comments' = SettleLast("ok")
  /\ Respond(PipelineFailure(errorMessage))
  /\ UNCHANGED <<now, storeVars, invocations, unitVars, requestVars, limiterVars, verifyCalls,
                 calls, content, analysis, factChecking, searchVars, errorMessage>>

\* line 276: posting the error comment rejects inside the catch block; the
\* exception reaches the outer catch, lines 299-307
ErrorCommentRejects ==
  /\ pc = "awaitErrorComment"
  /\ comments' = SettleLast("failed")
  /\ Respond(InternalError)
  /\ UNCHANGED <<now, storeVars, invocations, unitVars, requestVars, limiterVars, verifyCalls,
                 calls, content, analysis, factChecking, searchVars, errorMessage>>

Next ==
  \/ Tick
  \/ Receive
  \/ ValidateEnv
  \/ RateLimitStart
  \/ KvGetResolves
  \/ KvGetRejects
  \/ KvPutResolves
  \/ KvPutRejects
  \/ ReadSignature
  \/ Verify(Bodies)
  \/ VerifyRejects(Bodies)
  \/ HandleEvent
  \/ AckSettles
  \/ ContentResolves
  \/ ContentRejects
  \/ ContentTimesOut
  \/ AnalysisResolves
  \/ AnalysisRejects
  \/ SearchResolves
  \/ FactCheckResolves
  \/ FactCheckRejects
  \/ ReportResolves
  \/ ReportRejects
  \/ ErrorCommentResolves
  \/ ErrorCommentRejects

\* One invocation of fetch, from any store that earlier invocations left.
Spec == Init /\ [][Next]_vars

(***************************************************************************)
(* One invocation in which every call that fetch awaits settles: the step  *)
(* that the invocation is waiting for is eventually taken.  The arrival of *)
(* the request, the clock and the detached acknowledgment are not forced.  *)
(***************************************************************************)
\* Each line is one point at which the invocation runs or waits, with the
\* ways in which the wait can end.
Settles ==
  /\ WF_vars(ValidateEnv)
  /\ WF_vars(RateLimitStart)
  /\ WF_vars(KvGetResolves \/ KvGetRejects)
  /\ WF_vars(KvPutResolves \/ KvPutRejects)
  /\ WF_vars(ReadSignature)
  /\ WF_vars(Verify(Bodies) \/ VerifyRejects(Bodies))
  /\ WF_vars(HandleEvent)
  /\ WF_vars(ContentResolves \/ ContentRejects \/ ContentTimesOut)
  /\ WF_vars(AnalysisRejects \/ AnalysisResolves)
  /\ WF_vars(SearchResolves \/ FactCheckResolves \/ FactCheckRejects)
  /\ WF_vars(ReportResolves \/ ReportRejects)
  /\ WF_vars(ErrorCommentResolves \/ ErrorCommentRejects)

FairSpec == InitSequential /\ [][Next]_vars /\ Settles

(***************************************************************************)
(* Requests of the kind the rate-limit tests send (every secret set, body  *)
(* "{}"), handled one at a time from an empty store that never fails.      *)
(***************************************************************************)
NextSequential ==
  \/ Tick
  \/ ReceiveNext
  \/ ValidateEnv
  \/ RateLimitStart
  \/ KvGetResolves
  \/ KvPutResolves
  \/ ReadSignature
  \/ Verify({BodyEmptyObject})
  \/ HandleEvent

SequentialSpec == InitSequential /\ [][NextSequential]_vars

(***************************************************************************)
(* factCheck called on its own with any text, as its unit tests call it;   *)
(* the search backend answers each query with any response or an error.    *)
(***************************************************************************)
FactCheckCalled ==
  /\ factCheckState = "idle"
  /\ \E text \in Texts :
       /\ content' = text
       /\ CallFactCheck(text)
  /\ UNCHANGED <<now, storeVars, invocations, unitVars, pc, requestVars, limiterVars, verifyCalls,
                 calls, comments, analysis, factChecking, errorMessage, response>>

SearchResolved ==
  /\ ResolveSearch(SearchResponses)
  /\ UNCHANGED <<now, storeVars, invocations, unitVars, pc, requestVars, limiterVars, verifyCalls,
                 calls, comments, content, analysis, factChecking, errorMessage, response>>

SearchRejected ==
  /\ RejectSearch
  /\ UNCHANGED <<now, storeVars, invocations, unitVars, pc, requestVars, limiterVars, verifyCalls,
                 calls, comments, content, analysis, factChecking, errorMessage, response>>

FactCheckReturned ==
  /\ ReturnFactCheck
  /\ UNCHANGED <<now, storeVars, invocations, unitVars, pc, requestVars, limiterVars, verifyCalls,
                 calls, comments, content, analysis, errorMessage, response>>

NextFactCheck ==
  \/ FactCheckCalled
  \/ SearchResolved
  \/ SearchRejected
  \/ FactCheckReturned

FactCheckSpec == InitSequential /\ [][NextFactCheck]_vars

(***************************************************************************)
(* factCheck called on texts of several claims, with the order in which    *)
(* the searches of Promise.all (line 148) settle kept track of.            *)
(***************************************************************************)
ClaimTexts ==
  {Join(ps, <<".">>) :
     ps \in UNION {[1..n -> {SentenceTwenty, SentenceDoubleSpace, SentenceShort}] :
                     n \in 0..MaxSentences}}

ClaimsSearched ==
  /\ factCheckState = "idle"
  /\ \E text \in ClaimTexts :
       /\ content' = text
       /\ CallFactCheck(text)
  /\ UNCHANGED <<now, storeVars, invocations, unitVars, pc, requestVars, limiterVars,
                 verifyCalls, calls, comments, analysis, factChecking, errorMessage,
                 response>>

SearchSettles ==
  /\ ResolveSearch(PipelineResponses)
  /\ completedOutOfOrder' =
       (\/ completedOutOfOrder
        \/ \E i, j \in 1..Len(searches) :
             /\ i < j
             /\ searches[i].status = "pending"
             /\ searches'[i].status # "pending"
             /\ searches[j].status # "pending")
  /\ UNCHANGED <<now, storeVars, invocations, limiters, lookup, pc, requestVars,
                 limiterVars, verifyCalls, calls, comments, content, analysis,
                 factChecking, errorMessage, response>>

NextCompletion ==
  \/ ClaimsSearched
  \/ SearchSettles
  \/ SearchRejected
  \/ FactCheckReturned

CompletionSpec == InitSequential /\ [][NextCompletion]_vars

(***************************************************************************)
(* processSearchResults called on its own with one query, as its unit      *)
(* tests call it; searchBrave resolves with any response or throws.        *)
(***************************************************************************)
\* lines 85-137: searchBrave resolves and the results are collected
SearchResultsReturned ==
  /\ lookup.state = "idle"
  /\ \E r \in BackendResponses :
       lookup' = [state |-> "returned", response |-> r,
                  results |-> processSearchResults(r)]
  /\ UNCHANGED <<now, storeVars, invocations, pc, requestVars, limiterVars, verifyCalls,
                 calls, pipelineVars, response, limiters, completedOutOfOrder>>

\* lines 66-69 and 85: searchBrave throws and so does processSearchResults
SearchThrows ==
  /\ lookup.state = "idle"
  /\ lookup' = [lookup EXCEPT !.state = "threw"]
  /\ UNCHANGED <<now, storeVars, invocations, pc, requestVars, limiterVars, verifyCalls,
                 calls, pipelineVars, response, limiters, completedOutOfOrder>>

NextSearch ==
  \/ SearchResultsReturned
  \/ SearchThrows

SearchSpec == InitSequential /\ [][NextSearch]_vars

(***************************************************************************)
(* checkRateLimit (lines 78-111) entered by several invocations of one     *)
(* client at once.  The worker runtime interleaves them at each await:     *)
(* between the kv.get of one invocation and its kv.put, others may read    *)
(* and write the store.                                                    *)
(***************************************************************************)
\* cf-connecting-ip of the requests of the one client
SameClient == {"1.2.3.4"}

\* lines 133-134 and 80-86: an invocation resolves its client, reads the
\* clock and issues kv.get
ConcurrentEnter ==
  /\ Len(limiters) < MaxConcurrent
  /\ \E h \in SameClient :
       /\ limiters' = Append(limiters,
            [pc |-> "kvGet", isOverLimit |-> FALSE,
             rl |-> [NoLimiter EXCEPT !.now = now, !.key = RateLimitKey(clientIPOf(h))]])
       /\ history' = [history EXCEPT ![RateLimitKey(clientIPOf(h))] = Append(@, now)]
  /\ UNCHANGED <<now, kv, invocations, pc, requestVars, limiterVars, verifyCalls,
                 calls, pipelineVars, response, lookup, completedOutOfOrder>>

\* lines 86-99: kv.get resolves; the invocation filters, pushes its stamp
\* and issues kv.put
ConcurrentGet ==
  /\ \E p \in 1..Len(limiters) :
       /\ limiters[p].pc = "kvGet"
       /\ LET l == limiters[p].rl
              requests == StoredRequests(KvGet(kv, l.key, now))
          IN limiters' = [limiters EXCEPT
               ![p].pc = "kvPut",
               ![p].rl = [l EXCEPT !.requests = requests,
                                   !.validRequests = ValidRequests(requests, l.now),
                                   !.expired = Expired(kv, l.key, now)]]
  /\ UNCHANGED <<now, storeVars, invocations, pc, requestVars, limiterVars, verifyCalls,
                 calls, pipelineVars, response, lookup, completedOutOfOrder>>

\* Variant: the write stores the window computed from the record as it is
\* at the time of the write.
ConcurrentPutMerged ==
  /\ \E p \in 1..Len(limiters) :
       /\ limiters[p].pc = "kvPut"
       /\ LET l == limiters[p].rl
              merged == ValidRequests(StoredRequests(KvGet(kv, l.key, now)), l.now)
          IN /\ kv' = KvPut(kv, l.key, merged, RATE_LIMIT.WINDOW_SIZE, now)
             /\ limiters' = [limiters EXCEPT
                  ![p].pc = "done",
                  ![p].rl = [l EXCEPT !.putDone = TRUE],
                  ![p].isOverLimit = OverLimit(merged)]
  /\ UNCHANGED <<now, history, invocations, pc, requestVars, limiterVars, verifyCalls,
                 calls, pipelineVars, response, lookup, completedOutOfOrder>>

\* lines 98-107: kv.put resolves and checkRateLimit returns its decision
ConcurrentPut ==
  /\ \E p \in 1..Len(limiters) :
       /\ limiters[p].pc = "kvPut"
       /\ LET l == limiters[p].rl
          IN /\ kv' = KvPut(kv, l.key, l.validRequests, RATE_LIMIT.WINDOW_SIZE, now)
             /\ limiters' = [limiters EXCEPT
                  ![p].pc = "done",
                  ![p].rl = [l EXCEPT !.putDone = TRUE],
                  ![p].isOverLimit = OverLimit(l.validRequests)]
  /\ UNCHANGED <<now, history, invocations, pc, requestVars, limiterVars, verifyCalls,
                 calls, pipelineVars, response, lookup, completedOutOfOrder>>

NextConcurrent ==
  \/ Tick
  \/ ConcurrentEnter
  \/ ConcurrentGet
  \/ ConcurrentPut

ConcurrentSpec == InitSequential /\ [][NextConcurrent]_vars

(***************************************************************************)
(* Definitions used to state the properties.                               *)
(***************************************************************************)
\* checkRateLimit has returned in this invocation.
Decided == rl.putDone \/ rl.putFailed

\* How many of the stamps in s lie in the window that ends at t.
InWindow(s, t) == Cardinality({i \in 1..Len(s) : s[i] > t - WINDOW_SIZE})

Last(s) == s[Len(s)]

\* The number a sequence of decimal digits denotes.
RECURSIVE DecimalValue(_)
DecimalValue(d) ==
  IF d = <<>> THEN 0 ELSE 10 * DecimalValue(SubSeq(d, 1, Len(d) - 1)) + Last(d)

(***************************************************************************)
(* C1.  With requests handled one at a time against a store that never     *)
(* fails, the (MAX_REQUESTS+1)-th request of a client within a window of   *)
(* WINDOW_SIZE seconds is denied (answered 429) and the MAX_REQUESTS-th is *)
(* allowed.  history is the record of all requests of the client, kept     *)
(* apart from the store.  Specification: SequentialSpec.                   *)
(***************************************************************************)
C1_AsStated ==
  Decided =>
    LET n == InWindow(history[rl.key], rl.now)
    IN /\ n <= MAX_REQUESTS => response.status # 429
       /\ n >= MAX_REQUESTS + 1 => response.status = 429

\* What holds of C1: the MAX_REQUESTS-th request is allowed, and the next one
\* is denied unless the client's record, written with a TTL of WINDOW_SIZE,
\* ran out between the request's clock read and its kv.get.
C1_WindowLimitUnlessExpired ==
  Decided =>
    LET n == InWindow(history[rl.key], rl.now)
    IN /\ n <= MAX_REQUESTS => response.status # 429 /\ ~isOverLimit
       /\ n >= MAX_REQUESTS + 1 /\ ~rl.expired => pc = "done" /\ response.status = 429

\* The (MAX_REQUESTS+1)-th request of the window is denied after an older
\* request has left the window.
C1_DeniedReached ==
  /\ Decided
  /\ ~rl.expired
  /\ InWindow(history[rl.key], rl.now) = MAX_REQUESTS + 1
  /\ Len(history[rl.key]) > MAX_REQUESTS + 1
  /\ response.status = 429

(***************************************************************************)
(* C2.  As stated: if the store read fails, the store write fails, or both *)
(* fail during checkRateLimit, the request is not answered 429.            *)
(***************************************************************************)
C2_AsStated ==
  (rl.getFailed \/ rl.putFailed) => response.status # 429

\* C2 as amended: a failed store read always leads to an allowed request,
\* whether or not the write fails too; a failed write alone leaves the
\* decision what the window read from the store makes it: denied exactly
\* when that window already holds MAX_REQUESTS stamps.
C2_StoreErrors ==
  /\ rl.getFailed /\ Decided => response.status # 429 /\ ~isOverLimit
  /\ rl.putFailed /\ ~rl.getFailed =>
       (response.status = 429 <=> InWindow(rl.requests, rl.now) >= MAX_REQUESTS)

\* Both store calls failed for a client whose stored window is over the limit,
\* and the request went on to the signature gate.
C2_Witness ==
  /\ rl.getFailed
  /\ rl.putFailed
  /\ InWindow(kv[rl.key].value, rl.now) > MAX_REQUESTS
  /\ pc = "signature"

(***************************************************************************)
(* C3.  As stated: the rate-limit gate runs before signature verification: *)
(* a request answered 401 has its timestamp recorded in its client's       *)
(* window, and a request of a client over the limit is answered 429        *)
(* without verify being invoked.                                           *)
(***************************************************************************)
TimestampRecorded ==
  /\ kv[rl.key].present
  /\ kv[rl.key].value # <<>>
  /\ Last(kv[rl.key].value) = rl.now
  /\ kv[rl.key].value = rl.validRequests

C3_AsStated ==
  /\ response.status = 401 => TimestampRecorded
  /\ isOverLimit => response.status = 429 /\ verifyCalls = <<>>

\* C3 as amended: before the signature header is read the limiter has issued
\* kv.get and kv.put for the client; a request answered 401 has its timestamp
\* recorded in its client's window whenever that put succeeded; a request of
\* a client over the limit is answered 429 and verify is not invoked.
C3_RateLimitBeforeSignature ==
  /\ (response.status = 401 \/ isValid # "none") =>
       /\ Len(calls) >= 2
       /\ SubSeq(calls, 1, 2) = <<"kv.get", "kv.put">>
       /\ Decided
       /\ Last(rl.validRequests) = rl.now
  /\ response.status = 401 /\ rl.putDone => TimestampRecorded
  /\ isOverLimit =>
       /\ pc = "done"
       /\ response.status = 429
       /\ verifyCalls = <<>>
       /\ isValid = "none"
       /\ calls = <<"kv.get", "kv.put">>

\* An invalid signature was answered 401 after the request was recorded as
\* the MAX_REQUESTS-th of its client's window.
C3_Witness ==
  /\ response.status = 401
  /\ isValid = "false"
  /\ TimestampRecorded
  /\ Len(kv[rl.key].value) = MAX_REQUESTS

(***************************************************************************)
(* C4.  Signature gate: past the configuration and rate-limit gates a      *)
(* missing signature header yields 401 and a signature that verify rejects *)
(* yields 401; verify is invoked once, with the declared secret, the raw   *)
(* request body and the supplied signature; nothing past the validator     *)
(* happens unless verify returned true.                                    *)
(***************************************************************************)
PastValidator ==
  \/ pc \in {"parse", "awaitContent", "awaitAnalysis", "awaitFactCheck", "awaitReport",
             "awaitErrorComment"}
  \/ comments # <<>>
  \/ errorMessage # ""
  \/ response.body \in {"Event processed", "Invalid PR URL", "Article check completed"}
  \/ response.status \in {200, 400}

C4_SignatureGate ==
  /\ (pc = "done" /\ Decided /\ ~isOverLimit /\ signature = "") =>
       /\ response = TextResponse(401, "No signature")
       /\ verifyCalls = <<>>
  /\ isValid = "false" => pc = "done" /\ response = TextResponse(401, "Invalid signature")
  /\ isValid # "none" =>
       verifyCalls = <<<<ConfiguredEnv["GITHUB_WEBHOOK_SECRET"], rawBody, signature>>>>
  /\ isValid = "none" => verifyCalls = <<>>
  /\ PastValidator => isValid = "true"
  /\ response.status = 401 => isValid = "false" \/ signature = ""

\* verify rejected the signature of a trigger event and the answer was 401.
C4_Witness ==
  /\ isValid = "false"
  /\ rawBody = BodyTrigger
  /\ signature = "sha256=invalid"
  /\ response.status = 401

(***************************************************************************)
(* C5.  Configuration gate: if any of the four required secrets is empty,  *)
(* the response is 500 and in that invocation the rate-limit store is      *)
(* neither read nor written and verify is not invoked.                     *)
(***************************************************************************)
SecretMissing ==
  \/ env["GITHUB_TOKEN"] = ""
  \/ env["ANTHROPIC_API_KEY"] = ""
  \/ env["BRAVE_SEARCH_API_KEY"] = ""
  \/ env["GITHUB_WEBHOOK_SECRET"] = ""

C5_ConfigurationGate ==
  (SecretMissing /\ pc \notin {"idle", "validateEnv"}) =>
    /\ pc = "done"
    /\ response = TextResponse(500, "Missing required environment variables")
    /\ calls = <<>>
    /\ verifyCalls = <<>>
    /\ rl = NoLimiter
    /\ comments = <<>>

C5_StoreUntouched ==
  [][SecretMissing /\ pc # "idle" /\ pc' # "validateEnv" =>
       kv' = kv /\ history' = history]_vars

\* Only the search key is missing and the request was answered 500.
C5_Witness ==
  /\ env = [ConfiguredEnv EXCEPT !["BRAVE_SEARCH_API_KEY"] = ""]
  /\ pc = "done"
  /\ response.status = 500

(***************************************************************************)
(* C6.  Whenever the rate limiter denies a request the response is 429     *)
(* with a Retry-After header whose value is WINDOW_SIZE, however old the   *)
(* stored timestamps are; no other response has status 429.                *)
(***************************************************************************)
C6_RetryAfter ==
  /\ isOverLimit =>
       /\ response.status = 429
       /\ response.retryAfter # <<>>
       /\ DecimalValue(response.retryAfter) = WINDOW_SIZE
  /\ response.status = 429 =>
       /\ isOverLimit
       /\ InWindow(rl.requests, rl.now) >= MAX_REQUESTS
  /\ response.status # 429 => response.retryAfter = <<>>

\* A denial at a time when the stored timestamps are older than the request.
C6_Witness ==
  /\ response.status = 429
  /\ rl.now > 0
  /\ \A i \in 1..(Len(rl.validRequests) - 1) : rl.validRequests[i] < rl.now

(***************************************************************************)
(* C7.  End-to-end success: a validated "issue comment created" event on a *)
(* pull request whose body contains the trigger, with content fetch,       *)
(* analysis, fact check and comment posting all succeeding, is answered    *)
(* 200 and causes exactly one acknowledgment post and exactly one report   *)
(* post, the acknowledgment being issued first.                            *)
(***************************************************************************)
\* The request is the event the article check is for.
ArticleCheckRequested ==
  /\ isValid = "true"
  /\ rawBody.json
  /\ rawBody.hasIssue /\ rawBody.hasComment /\ rawBody.action = "created"
  /\ rawBody.hasPR
  /\ Includes(rawBody.commentBody, TRIGGER)

Kinds(cs) == [i \in 1..Len(cs) |-> cs[i].kind]

NothingFailed ==
  /\ errorMessage = ""
  /\ \A i \in 1..Len(comments) : comments[i].status # "failed"

C7_EndToEndSuccess ==
  /\ (pc = "done" /\ ArticleCheckRequested /\ rawBody.prUrl = UrlGood /\ NothingFailed) =>
       /\ response = TextResponse(200, "Article check completed")
       /\ Kinds(comments) = <<"ack", "report">>
       /\ comments[2].status = "ok"
       /\ \A i \in 1..2 : comments[i].target = <<"owner", "repo", 123>>
       /\ calls = <<"kv.get", "kv.put", "verify", "createComment", "getPRContent",
                    "analyzeArticle", "factCheck", "createComment">>
  /\ response.body = "Article check completed" =>
       /\ response.status = 200
       /\ Kinds(comments) = <<"ack", "report">>

\* The check of an article completed with the acknowledgment posted.
C7_Witness ==
  /\ pc = "done"
  /\ ArticleCheckRequested
  /\ NothingFailed
  /\ response.status = 200
  /\ Len(comments) = 2
  /\ comments[1].status = "ok"
  /\ comments[2].status = "ok"
  /\ factChecking # <<>>

(***************************************************************************)
(* C8.  End-to-end timeout: when the content fetch of a trigger event does *)
(* not complete within the timeout, or rejects with message "Timeout", the *)
(* response is 500 with JSON body {error: "Timeout"} and an error comment  *)
(* containing "Timeout" is posted on the issue.                            *)
(***************************************************************************)
ErrorCommentIssued(message) ==
  \E i \in 1..Len(comments) :
    /\ comments[i].kind = "error"
    /\ comments[i].message = message
    /\ comments[i].target = <<"owner", "repo", 123>>

C8_AsStated ==
  (pc = "done" /\ errorMessage = "Timeout") =>
    /\ response = ErrorJson(500, "Timeout")
    /\ ErrorCommentIssued("Timeout")

\* What holds of C8: the error comment is issued, and the response is the
\* one claimed when posting that comment succeeds.
C8_WhenErrorCommentPosted ==
  (pc = "done" /\ errorMessage = "Timeout") =>
    /\ ErrorCommentIssued("Timeout")
    /\ response.status = 500
    /\ comments[Len(comments)].status = "ok" => response = ErrorJson(500, "Timeout")

(***************************************************************************)
(* C9.  Non-matching events: a validated request whose payload is not an   *)
(* "issue comment created" event on a pull request, or whose comment body  *)
(* does not contain "/articlecheck", is answered 200 "Event processed";    *)
(* no comment is posted and no content, analysis or search call is made.   *)
(***************************************************************************)
NonMatchingEvent ==
  /\ isValid = "true"
  /\ rawBody.json
  /\ \/ ~(rawBody.hasIssue /\ rawBody.hasComment /\ rawBody.action = "created"
          /\ rawBody.hasPR)
     \/ ~Includes(rawBody.commentBody, TRIGGER)

C10_AsStated ==
  (pc = "done" /\ errorMessage # "") => response = ErrorJson(500, errorMessage)

\* What holds of C10: the status is always 500; the body carries the reason
\* only when the error comment was posted.
C10_StatusOnly ==
  (pc = "done" /\ errorMessage # "") =>
    /\ response.status = 500
    /\ response.kind = "json"
    /\ response.body = IF comments[Len(comments)].status = "ok"
                       THEN errorMessage ELSE "Internal server error"

(***************************************************************************)
(* C11.  The acknowledgment comment is a detached task: the content fetch  *)
(* is started without waiting for the acknowledgment post, and whether     *)
(* that post succeeds, fails or never completes, the later pipeline steps, *)
(* the final comment and the response are the same.  As a state property:  *)
(* the content fetch is in flight as soon as the acknowledgment is issued, *)
(* every failure reason is the failure of an awaited step, and the         *)
(* response is determined by the awaited steps.  As a step property: a     *)
(* step that settles the acknowledgment changes nothing else, and no other *)
(* step of the invocation touches the acknowledgment.                      *)
(***************************************************************************)
AckIssued == Len(comments) >= 1 /\ comments[1].kind = "ack"

Called(name) == \E i \in 1..Len(calls) : calls[i] = name

\* The failure reason is the failure of a step that fetch awaits.
FailureOfAwaitedStep ==
  \/ /\ errorMessage \in ContentErrors \cup {"Timeout"}
     /\ content = NoContent
     /\ ~Called("analyzeArticle")
  \/ /\ errorMessage \in AnalysisErrors
     /\ Called("analyzeArticle")
     /\ ~Called("factCheck")
  \/ /\ errorMessage \in FactCheckErrors
     /\ Called("factCheck")
     /\ \A i \in 1..Len(comments) : comments[i].kind # "report"
  \/ /\ errorMessage \in CommentErrors
     /\ \E i \in 2..Len(comments) :
          comments[i].kind = "report" /\ comments[i].status = "failed"

AckDetachedState ==
  /\ AckIssued =>
       /\ \E i \in 1..(Len(calls) - 1) :
            calls[i] = "createComment" /\ calls[i + 1] = "getPRContent"
       /\ \A i \in 2..Len(comments) : comments[i].kind # "ack"
  /\ errorMessage # "" => AckIssued /\ FailureOfAwaitedStep
  /\ (pc = "done" /\ AckIssued) =>
       IF errorMessage = ""
       THEN /\ response = TextResponse(200, "Article check completed")
            /\ Kinds(comments) = <<"ack", "report">>
            /\ comments[2].status = "ok"
       ELSE /\ response.status = 500
            /\ Last(comments).kind = "error"
            /\ Last(comments).message = errorMessage

AckDetachedStep ==
  AckIssued =>
    /\ Len(comments') >= 1
    /\ comments'[1].status # comments[1].status =>
         /\ comments[1].status = "pending"
         /\ Tail(comments') = Tail(comments)
         /\ UNCHANGED <<pc, calls, response, errorMessage, content, analysis,
                        factChecking, storeVars, verifyCalls>>
    /\ comments'[1].status = comments[1].status => comments'[1] = comments[1]

C11_DetachedAck == []AckDetachedState /\ [][AckDetachedStep]_vars

\* The article check completed although posting the acknowledgment failed.
C11_Witness ==
  /\ pc = "done"
  /\ AckIssued
  /\ comments[1].status = "failed"
  /\ response = TextResponse(200, "Article check completed")
  /\ comments[2].status = "ok"

(***************************************************************************)
(* C12.  As stated: an analysis failure is tolerated: if the analysis      *)
(* backend call fails (content fetch succeeded), the pipeline does not     *)
(* fail; a final report with the placeholder message in place of the       *)
(* analysis text is posted and the response is 200.                        *)
(***************************************************************************)
AnalysisFailed ==
  /\ content # NoContent
  /\ errorMessage \in AnalysisErrors

PlaceholderReportPosted ==
  \E i \in 1..Len(comments) :
    /\ comments[i].kind = "report"
    /\ comments[i].analysis = "*Error: Could not generate analysis*"
    /\ comments[i].status = "ok"

C12_AsStated ==
  (pc = "done" /\ AnalysisFailed) =>
    /\ response.status = 200
    /\ PlaceholderReportPosted

\* What holds: the placeholder stands in for an analysis that came back
\* empty; a failed analysis call ends the pipeline with an error comment,
\* no report and a 500.
C12_PlaceholderOnlyForEmptyAnalysis ==
  /\ \A i \in 1..Len(comments) :
       comments[i].kind = "report" =>
         /\ errorMessage \notin AnalysisErrors
         /\ comments[i].analysis =
              IF analysis = "" THEN "*Error: Could not generate analysis*" ELSE analysis
  /\ (pc = "done" /\ AnalysisFailed) =>
       /\ response.status = 500
       /\ Kinds(comments) = <<"ack", "error">>

(***************************************************************************)
(* C13.  A failure of any single claim's search makes factCheck fail as a  *)
(* whole: no partial result list is returned, also when the searches of    *)
(* the other claims succeeded; the failure propagates as a pipeline        *)
(* failure: no final report is posted, an error comment is posted and the  *)
(* response is 500.                                                        *)
(***************************************************************************)
SearchRejectedFor(i) == searches[i].status = "rejected"

NoReportIssued == \A i \in 1..Len(comments) : comments[i].kind # "report"

C13_SearchFailurePropagates ==
  /\ (\E i \in 1..Len(searches) : SearchRejectedFor(i)) =>
       /\ factCheckState = "threw"
       /\ factChecking = <<>>
       /\ errorMessage \in FactCheckErrors
  /\ factCheckState = "threw" =>
       /\ \E i \in 1..Len(searches) : SearchRejectedFor(i)
       /\ pc \in {"awaitErrorComment", "done"}
  /\ errorMessage \in FactCheckErrors =>
       /\ factCheckState = "threw"
       /\ NoReportIssued
       /\ ErrorCommentIssued(errorMessage)
       /\ Last(comments).kind = "error"
       /\ pc = "done" => response.status = 500 /\ response.kind = "json"

\* The search of the second claim failed after the search of the first had
\* found a reference; the error comment was posted and the answer was 500.
C13_Witness ==
  /\ pc = "done"
  /\ Len(searches) = 2
  /\ searches[1].status = "resolved"
  /\ searches[1].references # <<>>
  /\ SearchRejectedFor(2)
  /\ Last(comments).kind = "error"
  /\ Last(comments).status = "ok"
  /\ response = ErrorJson(500, "Brave search failed")

(***************************************************************************)
(* C14.  For every input text and every search response, factCheck         *)
(* extracts at most 3 claims (issues at most 3 searches) and every         *)
(* returned result carries at most 5 references.  Specification:           *)
(* FactCheckSpec.                                                          *)
(***************************************************************************)
C14_ClaimAndReferenceLimits ==
  /\ Len(claims) <= MAX_CLAIMS
  /\ Len(searches) = Len(claims)
  /\ \A i \in 1..Len(searches) : Len(searches[i].references) <= MAX_RESULTS
  /\ Len(factChecking) <= MAX_CLAIMS
  /\ \A i \in 1..Len(factChecking) : Len(factChecking[i].references) <= MAX_RESULTS

\* A text with more substantial sentences than MAX_CLAIMS was checked, and a
\* response with more items than MAX_RESULTS gave one of its claims
\* exactly MAX_RESULTS references.
C14_Witness ==
  /\ factCheckState = "returned"
  /\ Len(SelectSubstantial(TrimAll(Split(content, ".")))) > MAX_CLAIMS
  /\ Len(factChecking) = MAX_CLAIMS
  /\ \E i \in 1..Len(factChecking) : Len(factChecking[i].references) = MAX_RESULTS

(***************************************************************************)
(* C15.  Every entry of the list returned by factCheck has a non-empty     *)
(* reference list: a claim whose search yields no usable result is absent  *)
(* from the result, and the report of the orchestrator never renders a     *)
(* claim with no references.                                               *)
(***************************************************************************)
ClaimsWithReferences == {i \in 1..Len(searches) : searches[i].references # <<>>}

C15_NoEmptyReferences ==
  /\ \A i \in 1..Len(factChecking) : factChecking[i].references # <<>>
  /\ factCheckState = "returned" =>
       /\ Len(factChecking) = Cardinality(ClaimsWithReferences)
       /\ \A i \in 1..Len(claims) :
            (i \in ClaimsWithReferences) <=>
              \E j \in 1..Len(factChecking) :
                /\ factChecking[j].claim = claims[i]
                /\ factChecking[j].references = searches[i].references
  /\ \A i \in 1..Len(comments) :
       comments[i].kind = "report" =>
         /\ comments[i].facts = factChecking
         /\ \A j \in 1..Len(comments[i].facts) : comments[i].facts[j].references # <<>>
         /\ (comments[i].factsText = "*No claims to fact check*") <=> (factChecking = <<>>)

\* The report was posted with the second claim only: the search of the first
\* claim had no usable result.
C15_Witness ==
  /\ pc = "done"
  /\ Len(claims) = 2
  /\ searches[1].references = <<>>
  /\ Len(comments) = 2
  /\ comments[2].kind = "report"
  /\ comments[2].status = "ok"
  /\ Len(comments[2].facts) = 1
  /\ comments[2].facts[1].claim = claims[2]

(***************************************************************************)
(* C16.  As stated: claim extraction equals the reference operator: split  *)
(* the text on ".", trim each piece, keep a piece only if its trimmed      *)
(* length is at least 20 characters and it contains at least 5 whitespace- *)
(* delimited tokens, and take the first 3 kept pieces in original order.   *)
(* Specification: FactCheckSpec.                                           *)
(***************************************************************************)
\* The number of maximal runs of characters that are not whitespace.
TokenCount(s) ==
  Cardinality({i \in 1..Len(s) :
                 s[i] \notin Whitespace /\ (i = 1 \/ s[i - 1] \in Whitespace)})

RECURSIVE ReferenceKept(_)
ReferenceKept(pieces) ==
  IF pieces = <<>> THEN <<>>
  ELSE LET t == Trim(Head(pieces))
       IN IF Len(t) >= 20 /\ TokenCount(t) >= 5
          THEN <<t>> \o ReferenceKept(Tail(pieces))
          ELSE ReferenceKept(Tail(pieces))

ReferenceClaims(text) ==
  LET kept == ReferenceKept(Split(text, "."))
  IN [i \in 1..(IF Len(kept) < 3 THEN Len(kept) ELSE 3) |-> kept[i]]

C16_AsStated ==
  factCheckState # "idle" => claims = ReferenceClaims(content)

\* What holds: the count is that of the pieces between single spaces, that
\* is one more than the number of space characters of the trimmed piece.
SpaceCount(s) == Cardinality({i \in 1..Len(s) : s[i] = " "})

RECURSIVE KeptBySpaces(_)
KeptBySpaces(pieces) ==
  IF pieces = <<>> THEN <<>>
  ELSE LET t == Trim(Head(pieces))
       IN IF Len(t) >= 20 /\ SpaceCount(t) >= 4
          THEN <<t>> \o KeptBySpaces(Tail(pieces))
          ELSE KeptBySpaces(Tail(pieces))

C16_SpaceSeparatedPieces ==
  factCheckState # "idle" =>
    LET kept == KeptBySpaces(Split(content, "."))
    IN claims = [i \in 1..(IF Len(kept) < 3 THEN Len(kept) ELSE 3) |-> kept[i]]

(***************************************************************************)
(* C17.  A request that passes validation but whose body is not valid JSON *)
(* is answered 500 with the JSON body {error: "Internal server error"}     *)
(* (no parse detail), and no GitHub comment is posted in that invocation.  *)
(***************************************************************************)
C17_MalformedPayload ==
  (isValid = "true" /\ ~rawBody.json /\ pc # "parse") =>
    /\ pc = "done"
    /\ response = ErrorJson(500, "Internal server error")
    /\ comments = <<>>
    /\ calls = <<"kv.get", "kv.put", "verify">>
    /\ errorMessage = ""

\* The body "invalid json" with a valid signature was answered 500.
C17_Witness ==
  /\ isValid = "true"
  /\ rawBody = BodyInvalidJson
  /\ pc = "done"
  /\ response.status = 500
  /\ response.kind = "json"

(***************************************************************************)
(* C18.  As stated: for every request, configuration and collaborator      *)
(* behaviour, the status of the response returned by the handler is one of *)
(* 200, 401, 429 or 500.                                                   *)
(***************************************************************************)
C18_AsStated ==
  pc = "done" => response.status \in {200, 401, 429, 500}

\* What holds: the only other status is the 400 of line 193, returned for a
\* validated trigger event whose pull request carries no url.
C18_StatusesOfTheCode ==
  /\ pc = "done" => response.status \in {200, 400, 401, 429, 500}
  /\ pc # "done" => response = NoResponse
  /\ response.status = 400 =>
       /\ ArticleCheckRequested
       /\ rawBody.prUrl = UrlEmpty
       /\ response = TextResponse(400, "Invalid PR URL")

(***************************************************************************)
(* C19.  When the validator rejects a request (500 missing configuration,  *)
(* 429 rate limited, 401 missing or invalid signature) the handler returns *)
(* the validator's response at once: the payload is not parsed, no GitHub  *)
(* comment is posted and no content, analysis or search call is made in    *)
(* that invocation.                                                        *)
(***************************************************************************)
\* The response of validateRequest for each reason to reject; NoResponse when
\* there is none.
ValidatorVerdict ==
  IF SecretMissing /\ pc \notin {"idle", "validateEnv"}
  THEN TextResponse(500, "Missing required environment variables")
  ELSE IF isOverLimit
  THEN Response(429, "text", "Rate limit exceeded", ToDigits(WINDOW_SIZE))
  ELSE IF Decided /\ signature = "" /\ pc \notin {"signature"}
  THEN TextResponse(401, "No signature")
  ELSE IF isValid = "false"
  THEN TextResponse(401, "Invalid signature")
  ELSE NoResponse

NothingPastValidator ==
  /\ comments = <<>>
  /\ \A i \in 1..Len(calls) : calls[i] \in {"kv.get", "kv.put", "verify"}
  /\ content = NoContent
  /\ analysis = ""
  /\ factChecking = <<>>
  /\ factCheckState = "idle"
  /\ searches = <<>>
  /\ errorMessage = ""

C19_ValidatorRejection ==
  /\ ValidatorVerdict # NoResponse =>
       /\ pc = "done"
       /\ response = ValidatorVerdict
       /\ NothingPastValidator
  /\ (response.status \in {401, 429} \/ response.body = "Missing required environment variables") =>
       /\ response = ValidatorVerdict
       /\ isValid # "true"
  /\ pc = "parse" => isValid = "true" /\ ValidatorVerdict = NoResponse

\* A trigger event whose signature verify rejected was answered 401, nothing
\* else having happened.
C19_Witness ==
  /\ rawBody = BodyTrigger
  /\ isValid = "false"
  /\ pc = "done"
  /\ response = TextResponse(401, "Invalid signature")
  /\ comments = <<>>

(***************************************************************************)
(* C20.  As stated: every failure of a step that runs after validation     *)
(* passed and the event matched the trigger (PR reference extraction,      *)
(* content fetch, analysis, fact check, final report post) is caught at    *)
(* the orchestrator boundary and converted into a posted error comment     *)
(* carrying the reason plus a JSON error response.                         *)
(***************************************************************************)
\* The pull request's url is missing or is not one extractPRDetails accepts.
PRExtractionFailed ==
  /\ ArticleCheckRequested
  /\ rawBody.commentBody # <<>>
  /\ ~extractPRDetails(rawBody.prUrl).ok

StepFailed == PRExtractionFailed \/ errorMessage # ""

C20_AsStated ==
  (pc = "done" /\ StepFailed) =>
    /\ \E i \in 1..Len(comments) : comments[i].kind = "error"
    /\ errorMessage # "" => ErrorCommentIssued(errorMessage)
    /\ response.kind = "json"
    /\ response.status = 500

\* What holds: the failures of the steps inside the try block (content
\* fetch, analysis, fact check, report post) are so converted; a failed PR
\* reference extraction is answered with no comment at all.
C20_StepsInsideTry ==
  /\ (pc = "done" /\ errorMessage # "") =>
       /\ ErrorCommentIssued(errorMessage)
       /\ response.kind = "json"
       /\ response.status = 500
  /\ (pc = "done" /\ PRExtractionFailed) =>
       /\ comments = <<>>
       /\ errorMessage = ""
       /\ response = IF rawBody.prUrl = UrlEmpty
                     THEN TextResponse(400, "Invalid PR URL")
                     ELSE ErrorJson(500, "Internal server error")

(***************************************************************************)
(* C21.  As stated: analysis and fact-checking of the fetched content      *)
(* execute concurrently: after the content is fetched the fact check is    *)
(* started without waiting for the analysis call to complete.              *)
(***************************************************************************)
C21_AsStated ==
  (Called("analyzeArticle") /\ errorMessage = "") => Called("factCheck")

\* What holds: the two calls run one after the other; factCheck is started
\* only when analyzeArticle has resolved, and not at all when it rejects.
C21_FactCheckAfterAnalysis ==
  /\ pc = "awaitAnalysis" => ~Called("factCheck") /\ factCheckState = "idle"
  /\ Called("factCheck") =>
       /\ pc # "awaitAnalysis"
       /\ \E i \in 1..(Len(calls) - 1) :
            calls[i] = "analyzeArticle" /\ calls[i + 1] = "factCheck"
  /\ errorMessage \in AnalysisErrors => ~Called("factCheck")

(***************************************************************************)
(* C22.  checkRateLimit always attempts to persist the filtered sequence   *)
(* with the request's timestamp appended, with a TTL of WINDOW_SIZE,       *)
(* whether the request is allowed or denied; hence a denied request is     *)
(* itself recorded and counts against later requests of the same client.   *)
(* Specification: SequentialSpec.                                          *)
(***************************************************************************)
\* The stamps of s that lie in the window ending at t, in order.
RECURSIVE WindowOf(_, _)
WindowOf(s, t) ==
  IF s = <<>> THEN <<>>
  ELSE IF Last(s) > t - WINDOW_SIZE
       THEN Append(WindowOf(SubSeq(s, 1, Len(s) - 1), t), Last(s))
       ELSE WindowOf(SubSeq(s, 1, Len(s) - 1), t)

PersistedState ==
  Decided =>
    /\ Len(calls) >= 2
    /\ calls[2] = "kv.put"
    /\ kv[rl.key].present
    /\ kv[rl.key].value = rl.validRequests
    /\ Last(kv[rl.key].value) = rl.now
    /\ ~rl.expired => rl.validRequests = WindowOf(history[rl.key], rl.now)

PersistedStep ==
  (rl'.putDone /\ ~rl.putDone) =>
    /\ kv'[rl.key] = [present |-> TRUE, value |-> rl.validRequests,
                      expires |-> now + WINDOW_SIZE]
    /\ \A k \in Keys \ {rl.key} : kv'[k] = kv[k]

C22_AlwaysPersisted == []PersistedState /\ [][PersistedStep]_vars

\* The j-th request of the client was denied (its record had not expired).
DeniedEarlier(h, j) == InWindow(SubSeq(h, 1, j), h[j]) > MAX_REQUESTS

\* A request was denied that would have been allowed had an earlier denied
\* request of its window not been recorded.
C22_Witness ==
  /\ Decided
  /\ ~rl.expired
  /\ response.status = 429
  /\ Len(rl.validRequests) = MAX_REQUESTS + 1
  /\ kv[rl.key].value = rl.validRequests
  /\ \E j \in 1..(Len(history[rl.key]) - 1) :
       /\ history[rl.key][j] > rl.now - WINDOW_SIZE
       /\ DeniedEarlier(history[rl.key], j)

(***************************************************************************)
(* C23.  Persistence failure does not change the decision: for every       *)
(* stored sequence, client and time, checkRateLimit returns the same       *)
(* decision when the store write fails as when it succeeds, and a write    *)
(* failure never makes the request fail.                                   *)
(***************************************************************************)
\* The decision that the sequence read from the store calls for.
DecisionOfRead == InWindow(rl.requests, rl.now) >= MAX_REQUESTS

WriteOutcomeState ==
  /\ Decided => (isOverLimit <=> DecisionOfRead)
  /\ rl.putFailed =>
       /\ response.status = 429 <=> DecisionOfRead
       /\ ~DecisionOfRead /\ pc = "done" =>
            \/ signature = ""
            \/ isValid # "none"

WriteOutcomeStep ==
  (pc = "kvPut" /\ pc' # "kvPut") =>
    /\ isOverLimit' = DecisionOfRead
    /\ pc' = IF DecisionOfRead THEN "done" ELSE "signature"
    /\ DecisionOfRead => response'.status = 429
    /\ ~DecisionOfRead => response' = NoResponse

C23_WriteFailureKeepsDecision == []WriteOutcomeState /\ [][WriteOutcomeStep]_vars

\* The write failed for a client whose stored window was full: the request
\* was denied as it would have been had the write succeeded.
C23_Witness ==
  /\ rl.putFailed
  /\ ~rl.getFailed
  /\ Len(rl.requests) = MAX_REQUESTS
  /\ response.status = 429

(***************************************************************************)
(* C24.  Window invariant: the sequence that checkRateLimit counts for the *)
(* decision and persists holds only timestamps strictly greater than       *)
(* now - WINDOW_SIZE followed by now as its last element; a stored         *)
(* timestamp equal to now - WINDOW_SIZE or older is dropped before the     *)
(* decision and before persisting.  Specification: SequentialSpec.         *)
(***************************************************************************)
Filtered == pc = "kvPut" \/ Decided

C24_WindowInvariant ==
  /\ Filtered =>
       /\ rl.validRequests # <<>>
       /\ Last(rl.validRequests) = rl.now
       /\ \A i \in 1..Len(rl.validRequests) : rl.validRequests[i] > rl.now - WINDOW_SIZE
       /\ Len(rl.validRequests) =
            1 + Cardinality({i \in 1..Len(rl.requests) :
                               rl.requests[i] > rl.now - WINDOW_SIZE})
       /\ \A i \in 1..(Len(rl.validRequests) - 1) :
            \E j \in i..Len(rl.requests) : rl.requests[j] = rl.validRequests[i]
  /\ Decided =>
       /\ isOverLimit <=> Len(rl.validRequests) > MAX_REQUESTS
       /\ kv[rl.key].value = rl.validRequests

\* A stored timestamp exactly WINDOW_SIZE seconds old was dropped and a
\* younger one kept.
C24_Witness ==
  /\ Decided
  /\ \E i \in 1..Len(rl.requests) : rl.requests[i] = rl.now - WINDOW_SIZE
  /\ \E i \in 1..Len(rl.requests) : rl.requests[i] > rl.now - WINDOW_SIZE
  /\ \A i \in 1..Len(kv[rl.key].value) : kv[rl.key].value[i] > rl.now - WINDOW_SIZE

(***************************************************************************)
(* C25.  Concurrent invocations from the same client race on the           *)
(* unsynchronised read-modify-write of the timestamp sequence: there is an *)
(* interleaving in which two invocations read the same stored sequence and *)
(* the later write overwrites the earlier one, so that the stored window   *)
(* under-counts the requests made and more than MAX_REQUESTS requests of   *)
(* one client are allowed within one window.  Specification:               *)
(* ConcurrentSpec.                                                         *)
(***************************************************************************)
Finished == {p \in 1..Len(limiters) : limiters[p].pc = "done"}

\* What always holds of the unsynchronised limiter: each decision is the one
\* its own read calls for; a stored record is the view of one finished
\* invocation alone, never a merge of two; and the store never counts more
\* requests than the client made.
C25_LastWriterWins ==
  /\ \A p \in Finished :
       limiters[p].isOverLimit <=>
         InWindow(limiters[p].rl.requests, limiters[p].rl.now) >= MAX_REQUESTS
  /\ \A k \in Keys :
       kv[k].present =>
         /\ \E p \in Finished :
              limiters[p].rl.key = k /\ kv[k].value = limiters[p].rl.validRequests
         /\ Len(kv[k].value) <= Len(history[k])

\* Two invocations of one client read the same stored sequence, the write
\* of the second replaced the write of the first, the stored window holds
\* fewer stamps than the client made requests in it, and more than
\* MAX_REQUESTS requests of that client, all within one window, were allowed.
C25_Witness ==
  \E p, q \in Finished :
    /\ p < q
    /\ limiters[p].rl.key = limiters[q].rl.key
    /\ limiters[p].rl.requests = limiters[q].rl.requests
    /\ kv[limiters[q].rl.key].value = limiters[q].rl.validRequests
    /\ limiters[p].rl.now \notin
         {kv[limiters[q].rl.key].value[i] : i \in 1..(Len(limiters[q].rl.validRequests) - 1)}
    /\ InWindow(kv[limiters[q].rl.key].value, now) < InWindow(history[limiters[q].rl.key], now)
    /\ Cardinality({r \in Finished :
                      /\ limiters[r].rl.key = limiters[q].rl.key
                      /\ ~limiters[r].isOverLimit
                      /\ limiters[r].rl.now > now - WINDOW_SIZE}) > MAX_REQUESTS

(***************************************************************************)
(* C26.  Search result order matches claim order: whatever order the       *)
(* concurrent per-claim searches complete in, the list returned by         *)
(* factCheck lists the surviving claims in the order in which they occur   *)
(* in the source text.  Specification: CompletionSpec.                     *)
(***************************************************************************)
\* The n-th smallest element of a set of numbers.
Nth(S, n) == CHOOSE k \in S : Cardinality({m \in S : m <= k}) = n

\* The positions, among the pieces of the text between full stops, of the
\* pieces that qualify as claims.
SubstantialAt(text) ==
  {k \in 1..Len(Split(text, ".")) : IsSubstantial(Trim(Split(text, ".")[k]))}

C26_ClaimOrderKept ==
  factCheckState = "returned" =>
    /\ Len(factChecking) = Cardinality(ClaimsWithReferences)
    /\ \A j \in 1..Len(factChecking) :
         LET i == Nth(ClaimsWithReferences, j)
         IN /\ factChecking[j].references = searches[i].references
            /\ factChecking[j].claim = Trim(Split(content, ".")[Nth(SubstantialAt(content), i)])

\* Two different claims were returned, in text order, after the search of
\* an earlier claim settled later than the search of a later one.
C26_Witness ==
  /\ factCheckState = "returned"
  /\ completedOutOfOrder
  /\ Len(factChecking) >= 2
  /\ factChecking[1].claim # factChecking[2].claim

(***************************************************************************)
(* C27.  The result list of one search query equals the reference walk     *)
(* over the backend's relevance ordering: for each ordering entry in turn  *)
(* take the next unused item of the named category, skipping an entry      *)
(* whose category list is exhausted and skipping a news item whose         *)
(* description is shorter than 5 characters (the skipped news item is      *)
(* still consumed), and stop as soon as 5 results are collected; items of  *)
(* one category keep their relative order.  Specification: SearchSpec.     *)
(***************************************************************************)
OrderingOf(r) == IF r.hasMixed THEN r.main ELSE <<>>

ItemsOf(r, type) ==
  CASE type = "web" -> r.web
    [] type = "news" -> r.news
    [] type = "faq" -> r.faq

\* The entry at position j is the Rank-th entry of its category.
Rank(ordering, j) == Cardinality({k \in 1..j : ordering[k] = ordering[j]})

\* The item the entry at position j takes: the next unused one of its
\* category.
Taken(r, j) == ItemsOf(r, OrderingOf(r)[j])[Rank(OrderingOf(r), j)]

\* The positions of the ordering whose entry takes an item.
Taking(r) ==
  {j \in 1..Len(OrderingOf(r)) :
     Rank(OrderingOf(r), j) <= Len(ItemsOf(r, OrderingOf(r)[j]))}

\* The positions whose item becomes a result.
Yielding(r) ==
  {j \in Taking(r) :
     OrderingOf(r)[j] = "news" => Len(Taken(r, j).description) >= MIN_NEWS_DESCRIPTION}

C27_ReferenceWalk ==
  lookup.state = "returned" =>
    LET r == lookup.response
        n == IF Cardinality(Yielding(r)) < MAX_RESULTS
             THEN Cardinality(Yielding(r)) ELSE MAX_RESULTS
    IN /\ Len(lookup.results) = n
       /\ \A i \in 1..n :
            LET item == Taken(r, Nth(Yielding(r), i))
            IN /\ lookup.results[i].url = item.url
               /\ SubSeq(lookup.results[i].title, 1, 2) = item.title

\* A news item with a short description was consumed and skipped, the news
\* item after it became a result, and MAX_RESULTS results were collected.
C27_Witness ==
  /\ lookup.state = "returned"
  /\ Len(lookup.results) = MAX_RESULTS
  /\ \E j \in Taking(lookup.response) \ Yielding(lookup.response) :
       \E k \in Yielding(lookup.response) :
         /\ j < k
         /\ lookup.response.main[k] = "news"
         /\ \E i \in 1..MAX_RESULTS :
              lookup.results[i].url = Taken(lookup.response, k).url

(***************************************************************************)
(* C28.  As stated: each search query returns a deduplicated list: no two  *)
(* results in the list returned for one query have the same URL, for       *)
(* every backend response.  Specification: SearchSpec.                     *)
(***************************************************************************)
C28_AsStated ==
  lookup.state = "returned" =>
    \A i, j \in 1..Len(lookup.results) :
      i # j => lookup.results[i].url # lookup.results[j].url

\* What holds: the results repeat a URL exactly when the items taken do.
C28_UrlsOfTheItemsTaken ==
  lookup.state = "returned" =>
    \A i \in 1..Len(lookup.results) :
      lookup.results[i].url = Taken(lookup.response, Nth(Yielding(lookup.response), i)).url

(***************************************************************************)
(* C29.  As stated: a search result of any category (web, news or faq) is  *)
(* included in a query's result list only if it carries a non-empty        *)
(* textual description.  Specification: SearchSpec.                        *)
(***************************************************************************)
C29_AsStated ==
  lookup.state = "returned" =>
    \A i \in 1..Len(lookup.results) :
      lookup.results[i].description # <<>>

\* What holds: only a news item is tested, and on the length of its
\* description before removeStrong.
C29_OnlyNewsFiltered ==
  lookup.state = "returned" =>
    \A j \in Yielding(lookup.response) :
      lookup.response.main[j] = "news" =>
        Len(Taken(lookup.response, j).description) >= MIN_NEWS_DESCRIPTION

(***************************************************************************)
(* C30.  If the content fetch fails or times out, the pipeline fails with  *)
(* that error's message, neither the analysis backend nor the search       *)
(* backend is called in that invocation and no final report is posted;     *)
(* analysis and fact check are only ever started after the content was     *)
(* fetched successfully.                                                   *)
(***************************************************************************)
ContentFetchFailed == errorMessage \in ContentErrors

\* name was called, and before it prior was.
CalledAfter(name, prior) ==
  \A j \in 1..Len(calls) :
    calls[j] = name => \E i \in 1..(j - 1) : calls[i] = prior

C30_ContentGate ==
  /\ content = NoContent =>
       /\ ~Called("analyzeArticle")
       /\ ~Called("factCheck")
       /\ factCheckState = "idle"
       /\ searches = <<>>
       /\ NoReportIssued
  /\ ContentFetchFailed =>
       /\ content = NoContent
       /\ Last(comments).kind = "error"
       /\ Last(comments).message = errorMessage
       /\ pc \in {"awaitErrorComment", "done"}
       /\ pc = "done" =>
            /\ response.status = 500
            /\ Last(comments).status = "ok" => response = ErrorJson(500, errorMessage)
  /\ Called("analyzeArticle") \/ Called("factCheck") =>
       /\ content \in Contents
       /\ CalledAfter("analyzeArticle", "getPRContent")
       /\ CalledAfter("factCheck", "analyzeArticle")

\* The content fetch timed out: the invocation ended with the error comment
\* and the 500 carrying "Timeout", after the calls of the validator, the
\* acknowledgement and getPRContent only.
C30_Witness ==
  /\ pc = "done"
  /\ errorMessage = "Timeout"
  /\ calls = <<"kv.get", "kv.put", "verify", "createComment", "getPRContent",
               "createComment">>
  /\ Last(comments).kind = "error"
  /\ Last(comments).status = "ok"
  /\ response = ErrorJson(500, "Timeout")

(***************************************************************************)
(* C31.  Client isolation: checkRateLimit for client c reads and writes    *)
(* only the store key "ratelimit:" + c and leaves every other client's     *)
(* record unchanged, so one client's requests never change another         *)
(* client's decision; all requests lacking the client-IP header are keyed  *)
(* under the sentinel "unknown" and therefore share one window.            *)
(* Specification: SequentialSpec.                                          *)
(***************************************************************************)
\* checkRateLimit has been entered in this invocation.
Entered == rl.key # <<>>

OwnKeyState ==
  /\ Entered =>
       rl.key = <<"ratelimit:", IF ipHeader = "" THEN "unknown" ELSE ipHeader>>
  /\ (Decided /\ ~rl.expired) =>
       (isOverLimit <=> Len(WindowOf(history[rl.key], rl.now)) > MAX_REQUESTS)

OwnKeyStep ==
  /\ \A k \in Keys :
       kv'[k] # kv[k] => Entered /\ k = rl.key /\ rl'.key = rl.key
  /\ (pc = "kvGet" /\ pc' = "kvPut") =>
       rl'.requests \in {<<>>, kv[rl.key].value}
  /\ \A k \in Keys :
       history'[k] # history[k] => k = rl'.key

C31_ClientIsolation == []OwnKeyState /\ [][OwnKeyStep]_vars

\* A request of the client 1.2.3.4 was allowed while the window shared by
\* the requests without the header was over the limit.
C31_Witness ==
  /\ Decided
  /\ ipHeader = "1.2.3.4"
  /\ ~isOverLimit
  /\ Len(kv[<<"ratelimit:", "unknown">>].value) > MAX_REQUESTS
  /\ \A i \in 1..Len(kv[<<"ratelimit:", "unknown">>].value) :
       kv[<<"ratelimit:", "unknown">>].value[i] > rl.now - WINDOW_SIZE
  /\ Len(history[<<"ratelimit:", "unknown">>]) > MAX_REQUESTS

(***************************************************************************)
(* C32.  If the search backend's response carries no relevance ordering    *)
(* (mixed.main absent or empty), the query yields zero results whatever    *)
(* the web, news and faq lists contain, and the claim is therefore dropped *)
(* from factCheck's output.  Specification: SearchSpec.                    *)
(***************************************************************************)
NoOrdering(r) == ~r.hasMixed \/ r.main = <<>>

\* What factCheck returns for one claim whose search gave these results.
FactCheckOfOne(claim, results) ==
  WithReferences(SearchResults(<<claim>>, <<[references |-> References(results)]>>))

ReportPosted ==
  \E i \in 1..Len(comments) : comments[i].kind = "report" /\ comments[i].status = "ok"

ErrorCommentCalled == \E i \in 1..Len(comments) : comments[i].kind = "error"

C33_ReportOrErrorComment ==
  /\ (response.status = 200 /\ response.body = "Article check completed") =>
       /\ ReportPosted
       /\ Last(comments).kind = "report"
  /\ ~(ReportPosted /\ ErrorCommentCalled)
  /\ ErrorCommentCalled =>
       /\ missingEnvVars(env) = {}
       /\ Decided /\ ~isOverLimit
       /\ ArticleCheckRequested
       /\ Called("verify")
       /\ Last(comments).kind = "error"
       /\ Cardinality({i \in 1..Len(comments) : comments[i].kind = "error"}) = 1

\* The post of the report failed: the error comment was posted after it and
\* the answer is the 500 of the failure.
C33_Witness ==
  /\ pc = "done"
  /\ Kinds(comments) = <<"ack", "report", "error">>
  /\ comments[2].status = "failed"
  /\ comments[3].status = "ok"
  /\ response.status = 500

(***************************************************************************)
(* C34.  Assuming every collaborator call eventually returns or fails,     *)
(* every invocation eventually returns exactly one HTTP response; Done and *)
(* Failed are terminal, and after the response no further pipeline step of *)
(* that invocation is started and nothing is retried.  Specification:      *)
(* FairSpec.                                                               *)
(***************************************************************************)
\* How many times name was called.
CallCount(name) == Cardinality({i \in 1..Len(calls) : calls[i] = name})

OneResponseState ==
  /\ pc = "done" <=> response # NoResponse
  /\ \A name \in {"kv.get", "kv.put", "verify", "getPRContent", "analyzeArticle",
                  "factCheck"} : CallCount(name) <= 1
  /\ \A kind \in {"ack", "report", "error"} :
       Cardinality({i \in 1..Len(comments) : comments[i].kind = kind}) <= 1
  /\ CallCount("createComment") = Len(comments)

TerminalStep ==
  pc = "done" =>
    /\ pc' = "done"
    /\ response' = response
    /\ calls' = calls
    /\ Len(comments') = Len(comments)
    /\ kv' = kv
    /\ <<content, analysis, factChecking, searchVars, errorMessage>>'
         = <<content, analysis, factChecking, searchVars, errorMessage>>

C34_Termination ==
  /\ (pc # "idle") ~> (pc = "done")
  /\ []OneResponseState
  /\ [][TerminalStep]_vars

\* The invocation answered 200 with the report posted while the detached
\* acknowledgment had not settled yet.
C34_Witness ==
  /\ pc = "done"
  /\ response.status = 200
  /\ Kinds(comments) = <<"ack", "report">>
  /\ comments[1].status = "pending"
  /\ comments[2].status = "ok"

====
